---------------------------- MODULE Spec2Model ----------------------------
(***************************************************************************)
(* Voice Commander: the voice command interpretation pipeline.             *)
(*                                                                         *)
(* The model follows AdvancedVoiceRecognition (src/mic-test.js), its base  *)
(* class VoiceRecognition (src/voice.js) and ConfirmationSystem            *)
(* (src/voice-recognition-engine.js), together with the two platform       *)
(* services they use: localStorage and the timer queue.                    *)
(*                                                                         *)
(* Text.  A JavaScript string is a sequence of characters.  TLA+ strings   *)
(* are ASCII, so every character is written as a name: "u653b" is the      *)
(* kanji U+653B, "h_ha" the hiragana HA, "k_si" the katakana SI, "k_long"  *)
(* the prolonged sound mark, and ASCII characters stand for themselves.    *)
(* Each table below carries the source literal in a comment.               *)
(*                                                                         *)
(* Confidence is a float in [0,1] in the source; it is modelled in         *)
(* hundredths (0..100), so 0.6 is 60.                                      *)
(***************************************************************************)
EXTENDS Integers, Sequences, FiniteSets, TLC

(***************************************************************************)
(* String primitives                                                       *)
(***************************************************************************)

\* String.prototype.toLowerCase on one character: only the Latin capitals
\* that occur in the model's texts and tables have a lower-case form.
LowerChar(c) ==
  CASE c = "O" -> "o"
    [] c = "K" -> "k"
    [] c = "N" -> "n"
    [] OTHER -> c

toLowerCase(s) == [i \in DOMAIN s |-> LowerChar(s[i])]

RECURSIVE trimStart(_)
trimStart(s) ==
  IF s # <<>> /\ Head(s) = " " THEN trimStart(Tail(s)) ELSE s

RECURSIVE trimEnd(_)
trimEnd(s) ==
  IF s # <<>> /\ s[Len(s)] = " " THEN trimEnd(SubSeq(s, 1, Len(s) - 1)) ELSE s

\* String.prototype.trim
trim(s) == trimEnd(trimStart(s))

\* s.startsWith(p, from): p occurs in s at offset `from` (0-based)
occursAt(s, p, from) ==
  /\ from + Len(p) <= Len(s)
  /\ \A i \in 1..Len(p) : s[from + i] = p[i]

\* String.prototype.includes
includes(s, sub) == \E from \in 0..Len(s) : occursAt(s, sub, from)

\* The offsets >= from at which p occurs in s
occurrences(s, p, from) == {o \in from..Len(s) : occursAt(s, p, o)}

Min(S) == CHOOSE x \in S : \A y \in S : x <= y

\* RegExp.prototype.test for an unanchored pattern lit1.*lit2.*...litN, given
\* as the sequence of its literal segments: the segments occur in order
\* without overlapping (the leftmost occurrence of each is the best choice).
RECURSIVE testFrom(_, _, _)
testFrom(segments, s, from) ==
  IF segments = <<>> THEN TRUE
  ELSE LET occ == occurrences(s, Head(segments), from)
       IN  /\ occ # {}
           /\ testFrom(Tail(segments), s, Min(occ) + Len(Head(segments)))

test(pattern, s) == testFrom(pattern, s, 0)

\* RegExp.prototype.test for /^(alt1|alt2|...)/i
testPrefixAlternatives(alternatives, s) ==
  \E i \in 1..Len(alternatives) :
      occursAt(toLowerCase(s), toLowerCase(alternatives[i]), 0)

\* String.prototype.split(' ').length
splitLength(s) == Cardinality({i \in 1..Len(s) : s[i] = " "}) + 1

(***************************************************************************)
(* Map and Set, both kept in insertion order as JavaScript keeps them.     *)
(* A Map is a sequence of entries [key, val] with distinct keys, a Set a   *)
(* sequence without repetition.                                            *)
(***************************************************************************)

MapHas(m, k) == \E i \in 1..Len(m) : m[i].key = k

MapIndex(m, k) == CHOOSE i \in 1..Len(m) : m[i].key = k

MapGet(m, k) == m[MapIndex(m, k)].val

\* Map.prototype.set: an existing key keeps its place
MapSet(m, k, v) ==
  IF MapHas(m, k)
  THEN [m EXCEPT ![MapIndex(m, k)] = [key |-> k, val |-> v]]
  ELSE Append(m, [key |-> k, val |-> v])

MapKeys(m) == {m[i].key : i \in 1..Len(m)}

SetHas(s, x) == \E i \in 1..Len(s) : s[i] = x

\* Set.prototype.add
SetAdd(s, x) == IF SetHas(s, x) THEN s ELSE Append(s, x)

\* Set.prototype.delete
SetDelete(s, x) == SelectSeq(s, LAMBDA y : y # x)

SetMembers(s) == {s[i] : i \in 1..Len(s)}

(***************************************************************************)
(* Literal tables of the source                                            *)
(***************************************************************************)

\* VoiceRecognition.commandMap, in property order
commandMap ==
  << [keyword |-> <<"u653b", "u6483">>, command |-> "attack"]   \* '攻撃': 'attack'
   , [keyword |-> <<"h_ko", "h_u", "h_ge", "h_ki">>, command |-> "attack"]   \* 'こうげき': 'attack'
   , [keyword |-> <<"k_a", "k_ta", "k_small_tu", "k_ku">>, command |-> "attack"]   \* 'アタック': 'attack'
   , [keyword |-> <<"h_ta", "h_ta", "h_ka", "h_u">>, command |-> "attack"]   \* 'たたかう': 'attack'
   , [keyword |-> <<"u6226", "h_u">>, command |-> "attack"]   \* '戦う': 'attack'
   , [keyword |-> <<"u9632", "u5fa1">>, command |-> "defend"]   \* '防御': 'defend'
   , [keyword |-> <<"h_bo", "h_u", "h_gi", "h_small_yo">>, command |-> "defend"]   \* 'ぼうぎょ': 'defend'
   , [keyword |-> <<"k_de", "k_small_i", "k_hu", "k_small_e", "k_n", "k_su">>, command |-> "defend"]   \* 'ディフェンス': 'defend'
   , [keyword |-> <<"h_ma", "h_mo", "h_ru">>, command |-> "defend"]   \* 'まもる': 'defend'
   , [keyword |-> <<"u5b88", "h_ru">>, command |-> "defend"]   \* '守る': 'defend'
   , [keyword |-> <<"k_si", "k_long", "k_ru", "k_do">>, command |-> "defend"]   \* 'シールド': 'defend'
   , [keyword |-> <<"u64a4", "u9000">>, command |-> "retreat"]   \* '撤退': 'retreat'
   , [keyword |-> <<"h_te", "h_small_tu", "h_ta", "h_i">>, command |-> "retreat"]   \* 'てったい': 'retreat'
   , [keyword |-> <<"h_ni", "h_ge", "h_ru">>, command |-> "retreat"]   \* 'にげる': 'retreat'
   , [keyword |-> <<"u9003", "h_ge", "h_ru">>, command |-> "retreat"]   \* '逃げる': 'retreat'
   , [keyword |-> <<"h_hi", "h_ku">>, command |-> "retreat"]   \* 'ひく': 'retreat'
   , [keyword |-> <<"u5f15", "h_ku">>, command |-> "retreat"]   \* '引く': 'retreat'
   , [keyword |-> <<"u72b6", "u6cc1">>, command |-> "status"]   \* '状況': 'status'
   , [keyword |-> <<"h_zi", "h_small_yo", "h_u", "h_ki", "h_small_yo", "h_u">>, command |-> "status"]   \* 'じょうきょう': 'status'
   , [keyword |-> <<"k_re", "k_po", "k_long", "k_to">>, command |-> "status"]   \* 'レポート': 'status'
   , [keyword |-> <<"h_ho", "h_u", "h_ko", "h_ku">>, command |-> "status"]   \* 'ほうこく': 'status'
   , [keyword |-> <<"u5831", "u544a">>, command |-> "status"]   \* '報告': 'status'
  >>

\* naturalLanguagePatterns.get('attack')
patterns_attack ==
  << << <<"u6575">>, <<"h_ya", "h_small_tu", "h_tu", "h_ke">> >>   \* /敵.*やっつけ/
   , << <<"u6575">>, <<"u5012">> >>   \* /敵.*倒/
   , << <<"u6575">>, <<"u6483", "u7834">> >>   \* /敵.*撃破/
   , << <<"u653b", "u6483">>, <<"h_si", "h_te">> >>   \* /攻撃.*して/
   , << <<"h_ya", "h_small_tu", "h_tu", "h_ke", "h_te">> >>   \* /やっつけて/
   , << <<"u5012", "h_si", "h_te">> >>   \* /倒して/
   , << <<"u6483", "h_small_tu", "h_te">> >>   \* /撃って/
   , << <<"u6226", "h_small_tu", "h_te">> >>   \* /戦って/
   , << <<"u6575">>, <<"u6d88", "h_si", "h_te">> >>   \* /敵.*消して/
   , << <<"u6575">>, <<"u6392", "u9664">> >>   \* /敵.*排除/
   , << <<"u6575", "h_ga">>, <<"h_u", "h_za", "h_i">> >>   \* /敵が.*うざい/
   , << <<"u6575">>, <<"h_na", "h_n", "h_to", "h_ka">> >>   \* /敵.*なんとか/
  >>

\* naturalLanguagePatterns.get('defend')
patterns_defend ==
  << << <<"u5b88", "h_small_tu", "h_te">> >>   \* /守って/
   , << <<"u9632", "h_i", "h_de">> >>   \* /防いで/
   , << <<"k_si", "k_long", "k_ru", "k_do">> >>   \* /シールド/
   , << <<"k_ba", "k_ri", "k_a">> >>   \* /バリア/
   , << <<"u9632", "u885b">>, <<"u5f37", "u5316">> >>   \* /防衛.*強化/
   , << <<"u56de", "u5fa9">>, <<"h_si", "h_te">> >>   \* /回復.*して/
   , << <<"u6cbb", "h_si", "h_te">> >>   \* /治して/
   , << <<"u76f4", "h_si", "h_te">> >>   \* /直して/
   , << <<"u7acb", "h_te", "u76f4">> >>   \* /立て直/
   , << <<"u6301", "h_ti", "h_ko", "h_ta", "h_e">> >>   \* /持ちこたえ/
   , << <<"u8010", "h_e">> >>   \* /耐え/
  >>

\* naturalLanguagePatterns.get('retreat')
patterns_retreat ==
  << << <<"u9003", "h_ge">> >>   \* /逃げ/
   , << <<"u9000", "u907f">> >>   \* /退避/
   , << <<"u4e0b", "h_ga", "h_small_tu", "h_te">> >>   \* /下がって/
   , << <<"u5f15", "h_i", "h_te">> >>   \* /引いて/
   , << <<"u907f", "u96e3">> >>   \* /避難/
   , << <<"u64a4", "u9000">>, <<"h_si", "h_te">> >>   \* /撤退.*して/
   , << <<"u5371", "u967a">>, <<"h_da", "h_ka", "h_ra">> >>   \* /危険.*だから/
   , << <<"h_ya", "h_ba", "h_i">> >>   \* /やばい/
   , << <<"h_ma", "h_zu", "h_i">> >>   \* /まずい/
   , << <<"u7121", "u7406">> >>   \* /無理/
   , << <<"u53b3", "h_si", "h_i">> >>   \* /厳しい/
  >>

\* naturalLanguagePatterns.get('status')
patterns_status ==
  << << <<"h_do", "h_u", "h_na", "h_small_tu", "h_te">> >>   \* /どうなって/
   , << <<"u72b6", "u6cc1">>, <<"u6559", "h_e", "h_te">> >>   \* /状況.*教えて/
   , << <<"u4eca">>, <<"h_do", "h_u">> >>   \* /今.*どう/
   , << <<"u4f55", "h_ga">>, <<"u8d77", "h_ki", "h_te">> >>   \* /何が.*起きて/
   , << <<"u73fe", "u5728">>, <<"u72b6", "u6cc1">> >>   \* /現在.*状況/
   , << <<"k_re", "k_po", "k_long", "k_to">> >>   \* /レポート/
   , << <<"u5831", "u544a">>, <<"h_si", "h_te">> >>   \* /報告.*して/
   , << <<"u78ba", "u8a8d">> >>   \* /確認/
   , << <<"k_ti", "k_small_e", "k_small_tu", "k_ku">> >>   \* /チェック/
  >>

\* naturalLanguagePatterns.get('combo_attack_defend')
patterns_combo_attack_defend ==
  << << <<"u653b", "u6483">>, <<"u9632", "u5fa1">> >>   \* /攻撃.*防御/
   , << <<"u653b", "u6483">>, <<"u5b88">> >>   \* /攻撃.*守/
   , << <<"h_ya", "h_small_tu", "h_tu", "h_ke">>, <<"u5b88">> >>   \* /やっつけ.*守/
   , << <<"u6483", "u7834">>, <<"u9632", "u5fa1">> >>   \* /撃破.*防御/
  >>

\* naturalLanguagePatterns.get('combo_defend_attack')
patterns_combo_defend_attack ==
  << << <<"u9632", "u5fa1">>, <<"u653b", "u6483">> >>   \* /防御.*攻撃/
   , << <<"u5b88">>, <<"u653b", "u6483">> >>   \* /守.*攻撃/
   , << <<"u56de", "u5fa9">>, <<"u653b", "u6483">> >>   \* /回復.*攻撃/
   , << <<"u7acb", "h_te", "u76f4">>, <<"u653b", "u6483">> >>   \* /立て直.*攻撃/
  >>

\* confirmationPhrases.yes: /^(...)/i
phrases_yes ==
  << <<"h_ha", "h_i">>   \* はい
   , <<"h_so", "h_u", "h_de", "h_su">>   \* そうです
   , <<"u6b63", "u89e3">>   \* 正解
   , <<"k_o", "k_long", "k_ke", "k_long">>   \* オーケー
   , <<"O", "K">>   \* OK
   , <<"h_u", "h_n">>   \* うん
   , <<"h_so", "h_u">>   \* そう
   , <<"h_so", "h_no", "u901a", "h_ri">>   \* その通り
  >>

\* confirmationPhrases.no: /^(...)/i
phrases_no ==
  << <<"h_i", "h_i", "h_e">>   \* いいえ
   , <<"u9055", "h_i", "h_ma", "h_su">>   \* 違います
   , <<"h_ti", "h_ga", "h_u">>   \* ちがう
   , <<"h_da", "h_me">>   \* だめ
   , <<"k_no", "k_long">>   \* ノー
   , <<"N", "O">>   \* NO
   , <<"u9055", "h_u">>   \* 違う
  >>

\* confirmationPhrases.retry: /^(...)/i
phrases_retry ==
  << <<"h_mo", "h_u", "u4e00", "u5ea6">>   \* もう一度
   , <<"h_ya", "h_ri", "u76f4", "h_si">>   \* やり直し
   , <<"k_ri", "k_to", "k_ra", "k_i">>   \* リトライ
   , <<"u518d", "u5ea6">>   \* 再度
  >>

\* basicCommands of findSimilarPatterns
basicCommands ==
  << <<"u653b", "u6483">>   \* 攻撃
   , <<"u9632", "u5fa1">>   \* 防御
   , <<"u64a4", "u9000">>   \* 撤退
   , <<"u72b6", "u6cc1">>   \* 状況
  >>

\* naturalLanguagePatterns: the Map's entries in insertion order
naturalLanguagePatterns ==
  << [key |-> "attack",              val |-> patterns_attack]
   , [key |-> "defend",              val |-> patterns_defend]
   , [key |-> "retreat",             val |-> patterns_retreat]
   , [key |-> "status",              val |-> patterns_status]
   , [key |-> "combo_attack_defend", val |-> patterns_combo_attack_defend]
   , [key |-> "combo_defend_attack", val |-> patterns_combo_defend_attack]
  >>

\* The command pair a combo key names: combo.replace('combo_', '').split('_')
comboPair(combo) ==
  CASE combo = "combo_attack_defend" -> <<"attack", "defend">>
    [] combo = "combo_defend_attack" -> <<"defend", "attack">>
    [] OTHER -> <<>>

isCombo(key) == comboPair(key) # <<>>

(***************************************************************************)
(* Pattern Matcher                                                         *)
(***************************************************************************)

\* null, for a command
NoCommand == ""

\* VoiceRecognition.parseCommand: exact key first, then the first keyword,
\* in table order, that the lower-cased transcript contains
parseCommand(transcript) ==
  LET exact == {i \in 1..Len(commandMap) : commandMap[i].keyword = transcript}
      part  == {i \in 1..Len(commandMap) :
                  includes(toLowerCase(transcript), toLowerCase(commandMap[i].keyword))}
  IN  IF exact # {} THEN commandMap[Min(exact)].command
      ELSE IF part # {} THEN commandMap[Min(part)].command
      ELSE NoCommand

\* AdvancedVoiceRecognition.checkLearnedPatterns: the first learned entry,
\* in insertion order, whose key the transcript contains
checkLearnedPatterns(learned, transcript) ==
  LET hits == {i \in 1..Len(learned) :
                 includes(toLowerCase(transcript), toLowerCase(learned[i].key))}
  IN  IF hits = {} THEN NoCommand ELSE learned[Min(hits)].val

\* The combo step of parseAdvancedCommand: the first combo entry one of whose
\* patterns matches
comboMatch(lowerTranscript) ==
  LET hits == {i \in 1..Len(naturalLanguagePatterns) :
                 /\ isCombo(naturalLanguagePatterns[i].key)
                 /\ \E j \in 1..Len(naturalLanguagePatterns[i].val) :
                        test(naturalLanguagePatterns[i].val[j], lowerTranscript)}
  IN  IF hits = {} THEN <<>> ELSE comboPair(naturalLanguagePatterns[Min(hits)].key)

\* The keyword step of parseAdvancedCommand from table row i on: every
\* command one of whose keywords occurs, once each, in table order
RECURSIVE keywordScan(_, _, _)
keywordScan(lowerTranscript, i, commands) ==
  IF i > Len(commandMap) THEN commands
  ELSE LET row == commandMap[i]
           hit == /\ includes(lowerTranscript, toLowerCase(row.keyword))
                  /\ ~ SetHas(commands, row.command)
       IN  keywordScan(lowerTranscript, i + 1,
                       IF hit THEN Append(commands, row.command) ELSE commands)

\* parseAdvancedCommand with the combo step tried before the learned patterns
parseAdvancedCommand_ComboFirst(learned, transcript) ==
  LET lowerTranscript == toLowerCase(transcript)
      learnedCommand  == checkLearnedPatterns(learned, transcript)
      combo           == comboMatch(lowerTranscript)
  IN  IF combo # <<>> THEN combo
      ELSE IF learnedCommand # NoCommand THEN <<learnedCommand>>
      ELSE keywordScan(lowerTranscript, 1, <<>>)

\* AdvancedVoiceRecognition.parseAdvancedCommand
parseAdvancedCommand(learned, transcript) ==
  LET lowerTranscript == toLowerCase(transcript)
      learnedCommand  == checkLearnedPatterns(learned, transcript)
      combo           == comboMatch(lowerTranscript)
  IN  IF learnedCommand # NoCommand THEN <<learnedCommand>>
      ELSE IF combo # <<>> THEN combo
      ELSE keywordScan(lowerTranscript, 1, <<>>)

\* AdvancedVoiceRecognition.parseNaturalLanguage: the first non-combo entry
\* one of whose patterns matches
parseNaturalLanguage(transcript) ==
  LET lowerTranscript == toLowerCase(transcript)
      hits == {i \in 1..Len(naturalLanguagePatterns) :
                 /\ ~ isCombo(naturalLanguagePatterns[i].key)
                 /\ \E j \in 1..Len(naturalLanguagePatterns[i].val) :
                        test(naturalLanguagePatterns[i].val[j], lowerTranscript)}
  IN  IF hits = {} THEN NoCommand ELSE naturalLanguagePatterns[Min(hits)].key

\* The command list processRecognitionResult works with: parseAdvancedCommand,
\* and parseNaturalLanguage when that is empty
matchCommands(learned, transcript) ==
  LET commands == parseAdvancedCommand(learned, transcript)
      naturalCommand == parseNaturalLanguage(transcript)
  IN  IF commands # <<>> THEN commands
      ELSE IF naturalCommand # NoCommand THEN <<naturalCommand>>
      ELSE <<>>

\* AdvancedVoiceRecognition.countCommonCharacters
RECURSIVE countCommonCharacters(_, _)
countCommonCharacters(str1, chars2) ==
  IF str1 = <<>> THEN 0
  ELSE LET at == {i \in 1..Len(chars2) : chars2[i] = Head(str1)}
       IN  IF at = {} THEN countCommonCharacters(Tail(str1), chars2)
           ELSE 1 + countCommonCharacters(
                      Tail(str1),
                      SubSeq(chars2, 1, Min(at) - 1) \o SubSeq(chars2, Min(at) + 1, Len(chars2)))

\* calculateSimilarity(str1, str2) > 0.3, the bar of findSimilarPatterns
similarEnough(str1, str2) ==
  LET longer  == IF Len(str1) > Len(str2) THEN str1 ELSE str2
      shorter == IF Len(str1) > Len(str2) THEN str2 ELSE str1
  IN  IF Len(longer) = 0 THEN TRUE
      ELSE 10 * countCommonCharacters(longer, shorter) > 3 * Len(longer)

\* AdvancedVoiceRecognition.findSimilarPatterns: the number of suggestions
findSimilarPatterns(transcript) ==
  LET all == SelectSeq(basicCommands,
                       LAMBDA cmd : similarEnough(toLowerCase(transcript), toLowerCase(cmd)))
  IN  SubSeq(all, 1, IF Len(all) < 3 THEN Len(all) ELSE 3)

(***************************************************************************)
(* Confirmation thresholds                                                 *)
(***************************************************************************)

\* ConfirmationSystem.confidenceThreshold (0.6)
confidenceThreshold == 60

\* the bound for critical commands in shouldConfirm (0.8)
criticalThreshold == 80

\* the bound for long transcripts in shouldConfirm (0.75)
complexThreshold == 75

\* the token count a long transcript exceeds in shouldConfirm
complexTokens == 3

\* criticalCommands.some(cmd => command.toLowerCase().includes(cmd)):
\* of the command tokens only 'retreat' contains 'retreat' or its kanji
isCritical(command) == command = "retreat"

\* shouldConfirm with the base threshold taken as an inclusive bound
shouldConfirm_Inclusive(command, originalText, confidence) ==
  IF confidence <= confidenceThreshold THEN TRUE
  ELSE IF isCritical(command) THEN confidence < criticalThreshold
  ELSE IF splitLength(originalText) > complexTokens /\ confidence < complexThreshold THEN TRUE
  ELSE FALSE

\* ConfirmationSystem.shouldConfirm
shouldConfirm(command, originalText, confidence) ==
  IF confidence < confidenceThreshold THEN TRUE
  ELSE IF isCritical(command) THEN confidence < criticalThreshold
  ELSE IF splitLength(originalText) > complexTokens /\ confidence < complexThreshold THEN TRUE
  ELSE FALSE

(***************************************************************************)
(* Transcripts the recognizer delivers in the model                        *)
(***************************************************************************)

\* "攻撃"
T_kougeki == <<"u653b", "u6483">>

\* "敵をやっつけて"
T_yattsukete == <<"u6575", "h_wo", "h_ya", "h_small_tu", "h_tu", "h_ke", "h_te">>

\* "攻撃してから防御"
T_combo == <<"u653b", "u6483", "h_si", "h_te", "h_ka", "h_ra", "u9632", "u5fa1">>

\* "はい"
T_hai == <<"h_ha", "h_i">>

\* "いいえ"
T_iie == <<"h_i", "h_i", "h_e">>

\* "もう一度"
T_retry == <<"h_mo", "h_u", "u4e00", "u5ea6">>

\* "撤退"
T_tettai == <<"u64a4", "u9000">>

\* "えーと"
T_eeto == <<"h_e", "k_long", "h_to">>

\* "防御"
T_bougyo == <<"u9632", "u5fa1">>

\* "シールドON"
T_shield_on == <<"k_si", "k_long", "k_ru", "k_do", "O", "N">>

\* "シールドon"
T_shield_lower == <<"k_si", "k_long", "k_ru", "k_do", "o", "n">>

\* "状況確認して攻撃"
T_status_attack == <<"u72b6", "u6cc1", "u78ba", "u8a8d", "h_si", "h_te", "u653b", "u6483">>

\* "OK"
T_ok_upper == <<"O", "K">>

\* "敵 を やっつけて"
T_spaced3 == <<"u6575", " ", "h_wo", " ", "h_ya", "h_small_tu", "h_tu", "h_ke", "h_te">>

\* "敵 を やっつけ て"
T_spaced4 == <<"u6575", " ", "h_wo", " ", "h_ya", "h_small_tu", "h_tu", "h_ke", " ", "h_te">>

\* "敵 を 今 やっつけ て"
T_spaced5 == <<"u6575", " ", "h_wo", " ", "u4eca", " ", "h_ya", "h_small_tu", "h_tu", "h_ke", " ", "h_te">>


(***************************************************************************)
(* State                                                                   *)
(***************************************************************************)

VARIABLES
  userPatterns,         \* AdvancedVoiceRecognition.userPatterns: Map command -> Set of phrases
  learnedCommands,      \* AdvancedVoiceRecognition.learnedCommands: Map phrase -> command
  contextHistory,       \* AdvancedVoiceRecognition.contextHistory, newest first
  commandQueue,         \* AdvancedVoiceRecognition.commandQueue
  processingQueue,      \* AdvancedVoiceRecognition.processingQueue
  confirmationSystem,   \* whether initConfirmationSystem created a ConfirmationSystem
  pendingConfirmation,  \* ConfirmationSystem.pendingConfirmation: <<>> (null) or <<record>>
  confirmationTimeout,  \* ConfirmationSystem.confirmationTimeout: 0 (null) or a timer handle
  timers,               \* the timer queue: the confirmation timeouts set and not yet cleared or fired
  nextTimer,            \* the handle the next setTimeout returns
  localStorage,         \* the item 'voiceCommanderLearning': <<>> (absent) or <<record>>
  out,                  \* what the last step called back and spoke, in order
  ev,                   \* the event the last step handled
  events,               \* the number of transcripts delivered so far
  requests,             \* history: the number of requestConfirmation calls so far
  superseded,           \* history: the requests discarded by a later requestConfirmation
  recorded,             \* history: the <<phrase key, command>> pairs learnSuccessfulPattern was given since startup
  loadedKeys,           \* history: the learned keys read from localStorage at startup
  call,                 \* the arguments of the last matcher or shouldConfirm call checked on its own
  ret,                  \* and what it returned
  isListening,          \* VoiceRecognition.isListening; for the unified dispatcher, currentEngine.isListening
  scheduled,            \* the setTimeout callbacks UnifiedVoiceRecognition.queueCommands has set and that have not run
  clock,                \* the time in ms, for the specifications that keep time
  delivered,            \* history: the onCommand calls of the unified dispatcher, with their time
  whisper,              \* a WhisperWASMEngine instance
  webSpeech,            \* a WebSpeechEngine instance
  audio,                \* an AudioProcessor instance
  unified               \* the engines of a UnifiedVoiceRecognition instance

vars ==
  << userPatterns, learnedCommands, contextHistory, commandQueue, processingQueue,
     confirmationSystem, pendingConfirmation, confirmationTimeout, timers, nextTimer,
     localStorage, out, ev, events, requests, superseded, recorded, loadedKeys,
     call, ret, isListening, scheduled, clock, delivered, whisper, webSpeech, audio, unified >>

\* The mutable fields as one record, so that a handler is a function from
\* the state before to the state after and calls compose as in the source.
State ==
  [ userPatterns        |-> userPatterns,
    learnedCommands     |-> learnedCommands,
    contextHistory      |-> contextHistory,
    commandQueue        |-> commandQueue,
    processingQueue     |-> processingQueue,
    confirmationSystem  |-> confirmationSystem,
    pendingConfirmation |-> pendingConfirmation,
    confirmationTimeout |-> confirmationTimeout,
    timers              |-> timers,
    nextTimer           |-> nextTimer,
    localStorage        |-> localStorage,
    out                 |-> <<>>,
    requests            |-> requests,
    superseded          |-> superseded,
    recorded            |-> recorded,
    loadedKeys          |-> loadedKeys ]

\* The step's result written back to the variables
Becomes(s) ==
  /\ userPatterns'        = s.userPatterns
  /\ learnedCommands'     = s.learnedCommands
  /\ contextHistory'      = s.contextHistory
  /\ commandQueue'        = s.commandQueue
  /\ processingQueue'     = s.processingQueue
  /\ confirmationSystem'  = s.confirmationSystem
  /\ pendingConfirmation' = s.pendingConfirmation
  /\ confirmationTimeout' = s.confirmationTimeout
  /\ timers'              = s.timers
  /\ nextTimer'           = s.nextTimer
  /\ localStorage'        = s.localStorage
  /\ out'                 = s.out
  /\ requests'            = s.requests
  /\ superseded'          = s.superseded
  /\ recorded'            = s.recorded
  /\ loadedKeys'          = s.loadedKeys

\* One entry of `out`.  k names the callback or service, cmd its command
\* or message, text its transcript, n a count or the request concerned.
Output(k, cmd, text, n) == [k |-> k, cmd |-> cmd, text |-> text, n |-> n]

emit(s, e) == [s EXCEPT !.out = Append(@, e)]

\* AudioManager.speakAsSystem(message)
speakAsSystem(s, message) == emit(s, Output("speak", message, <<>>, 0))

(***************************************************************************)
(* Learning Store                                                          *)
(***************************************************************************)

\* the candidate-set size at which learnSuccessfulPattern promotes
promotionThreshold == 3

\* JSON of saveUserLearning: the Maps and Sets as arrays of pairs and arrays
serializeLearning(s) ==
  [ userPatterns    |-> [i \in 1..Len(s.userPatterns) |->
                            <<s.userPatterns[i].key, s.userPatterns[i].val>>],
    learnedCommands |-> [i \in 1..Len(s.learnedCommands) |->
                            <<s.learnedCommands[i].key, s.learnedCommands[i].val>>] ]

\* new Set(array) that keeps the first element only
setFromArray_FirstOnly(a) == IF a = <<>> THEN <<>> ELSE <<a[1]>>

\* new Set(array)
RECURSIVE setFromArray(_)
setFromArray(a) ==
  IF a = <<>> THEN <<>> ELSE SetAdd(setFromArray(SubSeq(a, 1, Len(a) - 1)), a[Len(a)])

\* new Map(array of [key, value] pairs)
RECURSIVE mapFromEntries(_)
mapFromEntries(a) ==
  IF a = <<>> THEN <<>>
  ELSE MapSet(mapFromEntries(SubSeq(a, 1, Len(a) - 1)), a[Len(a)][1], a[Len(a)][2])

\* saveUserLearning that writes nothing
saveUserLearning_NotWritten(s) == s

\* AdvancedVoiceRecognition.saveUserLearning
saveUserLearning(s) == [s EXCEPT !.localStorage = <<serializeLearning(s)>>]

\* AdvancedVoiceRecognition.loadUserLearning
loadUserLearning(s) ==
  IF s.localStorage = <<>> THEN s
  ELSE LET learningData == s.localStorage[1]
       IN  [s EXCEPT
             !.userPatterns = mapFromEntries(
                 [i \in 1..Len(learningData.userPatterns) |->
                    << learningData.userPatterns[i][1],
                       setFromArray(learningData.userPatterns[i][2]) >>]),
             !.learnedCommands = mapFromEntries(learningData.learnedCommands)]

\* AdvancedVoiceRecognition.learnSuccessfulPattern
learnSuccessfulPattern(s, transcript, commands) ==
  LET key     == trim(toLowerCase(transcript))
      command == commands[1]
      up0     == IF MapHas(s.userPatterns, command) THEN s.userPatterns
                 ELSE MapSet(s.userPatterns, command, <<>>)
      up1     == MapSet(up0, command, SetAdd(MapGet(up0, command), key))
      s1      == [s EXCEPT !.userPatterns = up1,
                           !.recorded = Append(@, <<key, command>>)]
  IN  IF Len(MapGet(up1, command)) >= promotionThreshold
      THEN saveUserLearning([s1 EXCEPT !.learnedCommands = MapSet(@, key, command)])
      ELSE s1

\* AdvancedVoiceRecognition.addLearningPattern.  The onUserLearning slot is
\* never assigned on this class (setCallbacks copies three slots only), so
\* the notification is not delivered.
addLearningPattern(s, originalText, command) ==
  learnSuccessfulPattern(s, originalText, <<command>>)

\* addCorrectionPattern that learns the correction but keeps the wrong phrase
addCorrectionPattern_WrongKept(s, originalText, wrongCommand, correctedText, correctCommand) ==
  addLearningPattern(s, correctedText, correctCommand)

\* AdvancedVoiceRecognition.addCorrectionPattern
addCorrectionPattern(s, originalText, wrongCommand, correctedText, correctCommand) ==
  LET key == trim(toLowerCase(originalText))
      up  == [i \in 1..Len(s.userPatterns) |->
                [key |-> s.userPatterns[i].key,
                 val |-> SetDelete(s.userPatterns[i].val, key)]]
  IN  addLearningPattern([s EXCEPT !.userPatterns = up], correctedText, correctCommand)

(***************************************************************************)
(* Command Sequencer                                                       *)
(***************************************************************************)

\* AdvancedVoiceRecognition.executeCommand: onCommand(command, originalText)
executeCommand(s, command, originalText) ==
  emit(s, Output("onCommand", command, originalText, 0))

\* The loop taking the command queued last where the source shifts the first
drainQueue_NewestFirst(s) ==
  IF s.commandQueue = <<>> THEN [s EXCEPT !.processingQueue = FALSE]
  ELSE LET commandInfo == s.commandQueue[Len(s.commandQueue)]
           s1 == executeCommand(
                   [s EXCEPT !.commandQueue = SubSeq(@, 1, Len(@) - 1)],
                   commandInfo.command, commandInfo.originalText)
       IN  IF s1.commandQueue # <<>> THEN s1
           ELSE [s1 EXCEPT !.processingQueue = FALSE]

\* The while loop of processCommandQueue from its head to the point where it
\* suspends in wait() or leaves the loop: the body runs once, and again only
\* if it emptied the queue, in which case the loop ends.
drainQueue(s) ==
  IF s.commandQueue = <<>> THEN [s EXCEPT !.processingQueue = FALSE]
  ELSE LET commandInfo == Head(s.commandQueue)
           s1 == executeCommand([s EXCEPT !.commandQueue = Tail(@)],
                                commandInfo.command, commandInfo.originalText)
       IN  IF s1.commandQueue # <<>> THEN s1
           ELSE [s1 EXCEPT !.processingQueue = FALSE]

\* AdvancedVoiceRecognition.processCommandQueue up to its first suspension
processCommandQueue(s) ==
  IF s.processingQueue THEN s
  ELSE drainQueue([s EXCEPT !.processingQueue = TRUE])

\* AdvancedVoiceRecognition.queueCommands; the 'queue' notification carries
\* the command names joined into its message
queueCommands(s, commands, originalText) ==
  LET pushed == [s EXCEPT !.commandQueue =
                   @ \o [i \in 1..Len(commands) |->
                           [command |-> commands[i], originalText |-> originalText]]]
      started == IF ~ pushed.processingQueue THEN processCommandQueue(pushed) ELSE pushed
  IN  emit(started, Output("onCommand", "queue", commands, Len(commands)))

(***************************************************************************)
(* Confirmation Coordinator                                                *)
(***************************************************************************)

hasPendingConfirmation(s) == s.pendingConfirmation # <<>>

\* clearPendingConfirmation that forgets the request but leaves its timer armed
clearPendingConfirmation_TimerKept(s) ==
  [s EXCEPT
    !.confirmationTimeout = 0,
    !.pendingConfirmation = <<>>]

\* ConfirmationSystem.clearPendingConfirmation
clearPendingConfirmation(s) ==
  [s EXCEPT
    !.timers = IF s.confirmationTimeout # 0
               THEN {t \in @ : t.handle # s.confirmationTimeout} ELSE @,
    !.confirmationTimeout = 0,
    !.pendingConfirmation = <<>>]

\* setTimeout(() => this.handleConfirmationTimeout(), 10000), its handle
\* stored in confirmationTimeout.  armedFor is history: the request pending
\* when the timer was set.
setConfirmationTimeout(s) ==
  [s EXCEPT
    !.timers = @ \cup {[handle |-> s.nextTimer,
                        armedFor |-> IF hasPendingConfirmation(s)
                                     THEN s.pendingConfirmation[1].id ELSE 0]},
    !.confirmationTimeout = s.nextTimer,
    !.nextTimer = @ + 1]

\* requestConfirmation that overwrites the pending request without clearing it
requestConfirmation_PriorKept(s, command, originalText, confidence, allCommands) ==
  LET dropped == IF hasPendingConfirmation(s)
                 THEN {s.pendingConfirmation[1].id} ELSE {}
      pending == [s EXCEPT
                   !.pendingConfirmation =
                      << [command      |-> command,
                          originalText |-> originalText,
                          confidence   |-> confidence,
                          allCommands  |-> allCommands,
                          id           |-> s.requests + 1] >>,
                   !.requests = @ + 1,
                   !.superseded = @ \cup dropped]
  IN  setConfirmationTimeout(speakAsSystem(pending, "confirm?"))

\* ConfirmationSystem.requestConfirmation.  allCommands is what the
\* onConfirmed closure captured; id is history, it numbers the requests.
requestConfirmation(s, command, originalText, confidence, allCommands) ==
  LET dropped == IF hasPendingConfirmation(s)
                 THEN {s.pendingConfirmation[1].id} ELSE {}
      cleared == clearPendingConfirmation(s)
      pending == [cleared EXCEPT
                   !.pendingConfirmation =
                      << [command      |-> command,
                          originalText |-> originalText,
                          confidence   |-> confidence,
                          allCommands  |-> allCommands,
                          id           |-> s.requests + 1] >>,
                   !.requests = @ + 1,
                   !.superseded = @ \cup dropped]
  IN  setConfirmationTimeout(speakAsSystem(pending, "confirm?"))

\* The onConfirmed closure requestConfirmationWithSystem passes
onConfirmed(s, pending, confirmedCommand, confirmedText) ==
  LET called == emit(s, Output("onConfirmed", confirmedCommand, confirmedText, pending.id))
      ran == IF Len(pending.allCommands) = 1
             THEN executeCommand(called, confirmedCommand, confirmedText)
             ELSE queueCommands(called,
                                <<confirmedCommand>> \o Tail(pending.allCommands),
                                confirmedText)
  IN  learnSuccessfulPattern(ran, confirmedText, <<confirmedCommand>>)

\* The onRejected closure requestConfirmationWithSystem passes.  The
\* onConfirmationRequest slot is never assigned on this class, so only the
\* closure's own run is recorded.
onRejected(s, pending, originalText, reason) ==
  emit(s, Output("onRejected", reason, originalText, pending.id))

\* requestConfirmationWithSystem that runs the command and then asks
requestConfirmationWithSystem_RunsFirst(s, command, transcript, confidence, allCommands) ==
  requestConfirmation(executeCommand(s, command, transcript),
                      command, transcript, confidence, allCommands)

\* AdvancedVoiceRecognition.requestConfirmationWithSystem
requestConfirmationWithSystem(s, command, transcript, confidence, allCommands) ==
  IF ~ s.confirmationSystem THEN executeCommand(s, command, transcript)
  ELSE requestConfirmation(s, command, transcript, confidence, allCommands)

\* ConfirmationSystem.confirmCommand
confirmCommand(s) ==
  IF ~ hasPendingConfirmation(s) THEN s
  ELSE LET pending == s.pendingConfirmation[1]
           s1 == onConfirmed(s, pending, pending.command, pending.originalText)
           s2 == addLearningPattern(s1, pending.originalText, pending.command)
       IN  clearPendingConfirmation(s2)

\* rejectCommand that also withdraws the rejected phrase from the candidate sets
rejectCommand_Unlearns(s) ==
  IF ~ hasPendingConfirmation(s) THEN s
  ELSE LET pending == s.pendingConfirmation[1]
           key == trim(toLowerCase(pending.originalText))
           up  == [i \in 1..Len(s.userPatterns) |->
                     [key |-> s.userPatterns[i].key,
                      val |-> SetDelete(s.userPatterns[i].val, key)]]
       IN  clearPendingConfirmation(
             onRejected([s EXCEPT !.userPatterns = up], pending,
                        pending.originalText, "wrong"))

\* ConfirmationSystem.rejectCommand
rejectCommand(s) ==
  IF ~ hasPendingConfirmation(s) THEN s
  ELSE LET pending == s.pendingConfirmation[1]
       IN  clearPendingConfirmation(
             onRejected(s, pending, pending.originalText, "wrong"))

\* ConfirmationSystem.replaceCommand
replaceCommand(s, newCommand, newText) ==
  IF ~ hasPendingConfirmation(s) THEN s
  ELSE LET pending == s.pendingConfirmation[1]
           s1 == onConfirmed(s, pending, newCommand, newText)
           s2 == addCorrectionPattern(s1, pending.originalText, pending.command,
                                      newText, newCommand)
       IN  clearPendingConfirmation(s2)

\* retryCommand that asks to repeat but keeps the request pending
retryCommand_PendingKept(s) ==
  IF ~ hasPendingConfirmation(s) THEN s
  ELSE speakAsSystem(s, "repeat")

\* ConfirmationSystem.retryCommand
retryCommand(s) ==
  IF ~ hasPendingConfirmation(s) THEN s
  ELSE clearPendingConfirmation(speakAsSystem(s, "repeat"))

\* handleUnknownResponse that clears the timer and sets no new one
handleUnknownResponse_NotRearmed(s) ==
  LET prompted == speakAsSystem(s, "reprompt")
  IN  IF prompted.confirmationTimeout # 0
      THEN [prompted EXCEPT !.timers = {t \in @ : t.handle # s.confirmationTimeout},
                            !.confirmationTimeout = 0]
      ELSE prompted

\* ConfirmationSystem.handleUnknownResponse
handleUnknownResponse(s) ==
  LET prompted == speakAsSystem(s, "reprompt")
  IN  IF prompted.confirmationTimeout # 0
      THEN setConfirmationTimeout(
             [prompted EXCEPT !.timers = {t \in @ : t.handle # s.confirmationTimeout}])
      ELSE prompted

\* ConfirmationSystem.handleConfirmationTimeout
handleConfirmationTimeout(s) ==
  IF ~ hasPendingConfirmation(s) THEN s
  ELSE speakAsSystem(rejectCommand(s), "timeout")

\* How handleConfirmationResponse classifies a response
responseKind(responseText) ==
  LET response == toLowerCase(responseText)
  IN  IF testPrefixAlternatives(phrases_yes, response) THEN "yes"
      ELSE IF testPrefixAlternatives(phrases_no, response) THEN "no"
      ELSE IF testPrefixAlternatives(phrases_retry, response) THEN "retry"
      ELSE IF parseCommand(response) # NoCommand THEN "replace"
      ELSE "unknown"

\* ConfirmationSystem.handleConfirmationResponse: the state after, and the
\* boolean it returns
handleConfirmationResponse(s, responseText) ==
  LET kind == responseKind(responseText)
  IN  IF ~ hasPendingConfirmation(s) THEN [state |-> s, handled |-> FALSE]
      ELSE CASE kind = "yes"     -> [state |-> confirmCommand(s), handled |-> TRUE]
             [] kind = "no"      -> [state |-> rejectCommand(s), handled |-> TRUE]
             [] kind = "retry"   -> [state |-> retryCommand(s), handled |-> TRUE]
             [] kind = "replace" ->
                  [state |-> replaceCommand(s, parseCommand(toLowerCase(responseText)),
                                            responseText),
                   handled |-> TRUE]
             [] OTHER -> [state |-> handleUnknownResponse(s), handled |-> FALSE]

(***************************************************************************)
(* The recognition result handler                                          *)
(***************************************************************************)

\* AdvancedVoiceRecognition.maxContextHistory
maxContextHistory == 10

\* addToContext that keeps every transcript
addToContext_Unbounded(s, transcript) ==
  [s EXCEPT !.contextHistory = <<transcript>> \o @]

\* AdvancedVoiceRecognition.addToContext
addToContext(s, transcript) ==
  LET extended == <<transcript>> \o s.contextHistory
  IN  [s EXCEPT !.contextHistory =
         IF Len(extended) > maxContextHistory
         THEN SubSeq(extended, 1, maxContextHistory) ELSE extended]

\* AdvancedVoiceRecognition.handleUnrecognizedInput
handleUnrecognizedInput(s, transcript) ==
  LET suggestions == findSimilarPatterns(transcript)
  IN  IF Len(suggestions) > 0
      THEN emit(s, Output("onCommand", "suggestion", <<>>, Len(suggestions)))
      ELSE emit(s, Output("onCommand", "help", <<>>, 0))

\* processRecognitionResult from "const commands = ..." on: the normal
\* matching of a transcript
matchAndDispatch(s, transcript, confidence) ==
  LET commands == matchCommands(s.learnedCommands, transcript)
  IN  IF commands = <<>> THEN handleUnrecognizedInput(s, transcript)
      ELSE IF s.confirmationSystem /\ shouldConfirm(commands[1], transcript, confidence)
      THEN requestConfirmationWithSystem(s, commands[1], transcript, confidence, commands)
      ELSE LET learned == learnSuccessfulPattern(s, transcript, commands)
           IN  IF Len(commands) = 1
               THEN executeCommand(learned, commands[1], transcript)
               ELSE queueCommands(learned, commands, transcript)

\* AdvancedVoiceRecognition.processRecognitionResult
processRecognitionResult(s, transcript, confidence) ==
  LET noted == addToContext(s, transcript)
      answer == handleConfirmationResponse(noted, transcript)
  IN  IF noted.confirmationSystem /\ hasPendingConfirmation(noted)
      THEN IF answer.handled THEN answer.state
           ELSE matchAndDispatch(answer.state, transcript, confidence)
      ELSE matchAndDispatch(noted, transcript, confidence)

(***************************************************************************)
(* Bounds and inputs                                                       *)
(***************************************************************************)

\* Transcripts delivered in one behaviour
MaxEvents == 3

\* The final results the recognizer delivers: transcript and confidence
Inputs ==
  { [text |-> T_kougeki,    confidence |-> 90],
    [text |-> T_kougeki,    confidence |-> 55],
    [text |-> T_yattsukete, confidence |-> 90],
    [text |-> T_yattsukete, confidence |-> 55],
    [text |-> T_combo,      confidence |-> 90],
    [text |-> T_combo,      confidence |-> 55],
    [text |-> T_tettai,     confidence |-> 90],
    [text |-> T_hai,        confidence |-> 90],
    [text |-> T_iie,        confidence |-> 90],
    [text |-> T_retry,      confidence |-> 90],
    [text |-> T_eeto,       confidence |-> 90] }

NoEvent == [kind |-> "start", text |-> <<>>, confidence |-> 0]

NoCall == [op |-> "", command |-> "", text |-> <<>>, confidence |-> 0]

NoReturn == [commands |-> <<>>, flag |-> FALSE]

(***************************************************************************)
(* The pipeline: AdvancedVoiceRecognition with its ConfirmationSystem      *)
(***************************************************************************)

\* The variables the pipeline of AdvancedVoiceRecognition does not use
otherVars == <<scheduled, clock, delivered, whisper, webSpeech, audio, unified>>

\* new WhisperWASMEngine().  whisperContext and audioProcessor are TRUE when
\* the field holds an object; an utterance's audio data is its number.
\* calls are the whisperModule.transcribe calls not yet settled, each
\* awaited by the processQueuedAudio run that made it.  The rest is
\* history: the utterances the audio processor reported, those it reported
\* while the engine was listening, those handed to transcribe, and the
\* onResult notifications.
WhisperWASMEngine_constructor ==
  [ isInitialized   |-> FALSE,
    isListening     |-> FALSE,
    isProcessing    |-> FALSE,
    processingQueue |-> <<>>,
    whisperContext  |-> FALSE,
    audioProcessor  |-> FALSE,
    calls           |-> {},
    utterances      |-> 0,
    heard           |-> {},
    begun           |-> <<>>,
    notified        |-> <<>> ]

\* new WebSpeechEngine().  recognition is "null" before init and after
\* cleanup, otherwise the state of the browser's recognizer: "idle",
\* "starting" (start() called, onstart to come), "running", or "stopping"
\* (onend to come).  restartTimeout is TRUE when the field holds a timer
\* handle, restartArmed when that timer is still to fire, retryArmed when
\* the 1000 ms timer of a failed restart is.  The rest is history: wanted
\* says start() was called and stop() has not been since, statuses lists
\* the status changes and errors the recognizer reported, fatal says the
\* last error was one after which no restart is wanted and start() has not
\* been called since, returned is what the last start() returned.
WebSpeechEngine_constructor ==
  [ isSupported    |-> TRUE,
    isInitialized  |-> FALSE,
    isListening    |-> FALSE,
    recognition    |-> "null",
    restartTimeout |-> FALSE,
    restartArmed   |-> FALSE,
    retryArmed     |-> FALSE,
    wanted         |-> FALSE,
    statuses       |-> <<>>,
    fatal          |-> FALSE,
    returned       |-> "none" ]

\* new AudioProcessor().  Times are in ms; speechStartTime and silenceTimer
\* are -1 when the field is null, silenceTimer otherwise the time at which
\* the timer is due.  ended is history: for every utterance handleSpeechEnd
\* closed, how long its speech lasted (first to last speech frame), the
\* duration handleSpeechEnd computed, what ended it, whether
\* onSpeechEnd was called, and whether handleSpeechEnd cleared a silence
\* timer that was still to fire.  resumed is history too: a speech buffer
\* of the utterance in progress cleared an armed silence timer.
AudioProcessor_constructor ==
  [ isRecording     |-> FALSE,
    isProcessing    |-> FALSE,
    speechStartTime |-> -1,
    lastSpeechTime  |-> -1,
    silenceTimer    |-> -1,
    resumed         |-> FALSE,
    ended           |-> <<>> ]

\* new UnifiedVoiceRecognition(), the fields that manage the engines.
\* currentEngine is "null" or the id of the engine; availableEngines holds
\* the ids registered; awaited is the id of the engine whose init() a
\* switchEngine call awaits, "null" when none does; callbacks holds the
\* engines whose callbacks setupEngineCallbacks has set.  The rest is
\* history: switched describes the last switchEngine call, the id asked
\* for, the engine that was current when it was made, whether that engine
\* was initialized then, and how the call ended; processed lists the results handed to processRecognitionResult,
\* with the engine each came from and the engine current at that time.
UnifiedVoiceRecognition_constructor ==
  [ currentEngine    |-> "null",
    availableEngines |-> {},
    awaited          |-> "null",
    callbacks        |-> {},
    switched         |-> [engineType |-> "null", previous |-> "null",
                          initialized |-> FALSE, outcome |-> "none"],
    processed        |-> <<>> ]

\* The state VoiceCommanderApp.initializeSystems leaves: a constructed
\* AdvancedVoiceRecognition on a cold store, and initConfirmationSystem
\* called once (it creates the ConfirmationSystem if the class is loaded).
Init ==
  /\ userPatterns = <<>>
  /\ learnedCommands = <<>>
  /\ contextHistory = <<>>
  /\ commandQueue = <<>>
  /\ processingQueue = FALSE
  /\ confirmationSystem \in BOOLEAN
  /\ pendingConfirmation = <<>>
  /\ confirmationTimeout = 0
  /\ timers = {}
  /\ nextTimer = 1
  /\ localStorage = <<>>
  /\ out = <<>>
  /\ ev = NoEvent
  /\ events = 0
  /\ requests = 0
  /\ superseded = {}
  /\ recorded = <<>>
  /\ loadedKeys = {}
  /\ call = NoCall
  /\ ret = NoReturn
  /\ isListening = FALSE
  /\ scheduled = <<>>
  /\ clock = 0
  /\ delivered = <<>>
  /\ whisper = WhisperWASMEngine_constructor
  /\ webSpeech = WebSpeechEngine_constructor
  /\ audio = AudioProcessor_constructor
  /\ unified = UnifiedVoiceRecognition_constructor

\* VoiceRecognition.start, with the recognizer's onstart
start ==
  /\ ~ isListening
  /\ isListening' = TRUE
  /\ Becomes(State)
  /\ ev' = [kind |-> "start()", text |-> <<>>, confidence |-> 0]
  /\ UNCHANGED <<events, call, ret, otherVars>>

\* VoiceRecognition.stop, with the recognizer's onend.  Nothing but the
\* recognizer is stopped.
stop ==
  /\ isListening
  /\ isListening' = FALSE
  /\ Becomes(State)
  /\ ev' = [kind |-> "stop()", text |-> <<>>, confidence |-> 0]
  /\ UNCHANGED <<events, call, ret, otherVars>>

\* recognition.onresult: the transcript is trimmed and handed to
\* processRecognitionResult
onresult(text, confidence) ==
  /\ isListening
  /\ events < MaxEvents
  /\ Becomes(processRecognitionResult(State, trim(text), confidence))
  /\ ev' = [kind |-> "result", text |-> trim(text), confidence |-> confidence]
  /\ events' = events + 1
  /\ UNCHANGED <<call, ret, isListening, otherVars>>

\* The 10 s confirmation timer fires
confirmationTimerFires ==
  /\ \E t \in timers :
        Becomes(handleConfirmationTimeout([State EXCEPT !.timers = @ \ {t}]))
  /\ ev' = [kind |-> "timeout", text |-> <<>>, confidence |-> 0]
  /\ UNCHANGED <<events, call, ret, isListening, otherVars>>

\* The wait(queueProcessingDelay) of processCommandQueue resolves and the
\* loop goes on
queueTimerFires ==
  /\ processingQueue
  /\ Becomes(drainQueue(State))
  /\ ev' = [kind |-> "queueTimer", text |-> <<>>, confidence |-> 0]
  /\ UNCHANGED <<events, call, ret, isListening, otherVars>>

\* The page is loaded again: a new AdvancedVoiceRecognition is constructed
\* (initAdvancedFeatures calls loadUserLearning) over the same localStorage
reload ==
  LET fresh == [State EXCEPT
                  !.userPatterns = <<>>, !.learnedCommands = <<>>,
                  !.contextHistory = <<>>, !.commandQueue = <<>>,
                  !.processingQueue = FALSE, !.pendingConfirmation = <<>>,
                  !.confirmationTimeout = 0, !.timers = {}, !.nextTimer = 1,
                  !.requests = 0, !.superseded = {}, !.recorded = <<>>]
      loaded == loadUserLearning(fresh)
  IN  /\ ev.kind # "reload"
      /\ Becomes([loaded EXCEPT !.loadedKeys = MapKeys(loaded.learnedCommands)])
      /\ ev' = [kind |-> "reload", text |-> <<>>, confidence |-> 0]
      /\ isListening' = FALSE
      /\ UNCHANGED <<events, call, ret, otherVars>>

Next ==
  \/ start
  \/ stop
  \/ \E i \in Inputs : onresult(i.text, i.confidence)
  \/ confirmationTimerFires
  \/ queueTimerFires
  \/ reload

Spec == Init /\ [][Next]_vars

(***************************************************************************)
(* The matcher and shouldConfirm on their own                              *)
(***************************************************************************)

\* Entries a learned-pattern map can hold: a phrase promoted under the
\* command a cold store matches it to
LearnedEntries ==
  { [key |-> T_kougeki,      val |-> "attack"],
    [key |-> T_bougyo,       val |-> "defend"],
    [key |-> T_shield_lower, val |-> "defend"],
    [key |-> T_tettai,       val |-> "retreat"],
    [key |-> T_yattsukete,   val |-> "attack"] }

\* Entries in a learned-pattern map
MaxLearned == 2

\* The learned-pattern maps of up to MaxLearned entries, in every insertion order
LearnedMaps ==
  UNION { { m \in [1..n -> LearnedEntries] :
              \A i, j \in 1..n : i # j => m[i].key # m[j].key } : n \in 0..MaxLearned }

\* Transcripts given to the matcher
MatchTexts ==
  { T_kougeki, T_bougyo, T_combo, T_yattsukete, T_tettai, T_shield_on,
    T_status_attack, T_eeto }

\* Transcripts given to shouldConfirm: 1, 3, 4 and 5 space-separated tokens
ConfirmTexts == { T_kougeki, T_spaced3, T_spaced4, T_spaced5 }

CommandTokens == {"attack", "defend", "retreat", "status"}

\* Confidences around the three thresholds
Confidences == {0, 59, 60, 61, 74, 75, 79, 80, 100}

\* Everything but call and ret
pipelineVars ==
  << userPatterns, learnedCommands, contextHistory, commandQueue, processingQueue,
     confirmationSystem, pendingConfirmation, confirmationTimeout, timers, nextTimer,
     localStorage, out, ev, events, requests, superseded, recorded, loadedKeys,
     isListening, scheduled, clock, delivered, whisper, webSpeech, audio, unified >>

\* A pipeline between events whose store holds one of the learned maps
InitFn ==
  /\ userPatterns = <<>>
  /\ learnedCommands \in LearnedMaps
  /\ contextHistory = <<>>
  /\ commandQueue = <<>>
  /\ processingQueue = FALSE
  /\ confirmationSystem = TRUE
  /\ pendingConfirmation = <<>>
  /\ confirmationTimeout = 0
  /\ timers = {}
  /\ nextTimer = 1
  /\ localStorage = <<>>
  /\ out = <<>>
  /\ ev = NoEvent
  /\ events = 0
  /\ requests = 0
  /\ superseded = {}
  /\ recorded = <<>>
  /\ loadedKeys = {}
  /\ call = NoCall
  /\ ret = NoReturn
  /\ isListening = FALSE
  /\ scheduled = <<>>
  /\ clock = 0
  /\ delivered = <<>>
  /\ whisper = WhisperWASMEngine_constructor
  /\ webSpeech = WebSpeechEngine_constructor
  /\ audio = AudioProcessor_constructor
  /\ unified = UnifiedVoiceRecognition_constructor

\* parseAdvancedCommand(transcript) on the learned-pattern map
callParseAdvancedCommand(transcript) ==
  /\ call' = [op |-> "parseAdvancedCommand", command |-> "", text |-> transcript,
              confidence |-> 0]
  /\ ret' = [commands |-> parseAdvancedCommand(learnedCommands, transcript), flag |-> FALSE]
  /\ UNCHANGED pipelineVars

\* shouldConfirm(command, originalText, confidence)
callShouldConfirm(command, originalText, confidence) ==
  /\ call' = [op |-> "shouldConfirm", command |-> command, text |-> originalText,
              confidence |-> confidence]
  /\ ret' = [commands |-> <<>>, flag |-> shouldConfirm(command, originalText, confidence)]
  /\ UNCHANGED pipelineVars

NextFn ==
  \/ \E t \in MatchTexts : callParseAdvancedCommand(t)
  \/ \E c \in CommandTokens, t \in ConfirmTexts, x \in Confidences :
        callShouldConfirm(c, t, x)

SpecFn == InitFn /\ [][NextFn]_vars

(***************************************************************************)
(* The unified dispatcher: UnifiedVoiceRecognition                         *)
(***************************************************************************)

\* commandMap of UnifiedVoiceRecognition.parseAdvancedCommand
Unified_commandMap ==
  << [keyword |-> <<"u653b", "u6483">>, command |-> "attack"]   \* '攻撃': 'attack'
   , [keyword |-> <<"h_ko", "h_u", "h_ge", "h_ki">>, command |-> "attack"]   \* 'こうげき': 'attack'
   , [keyword |-> <<"a", "t", "t", "a", "c", "k">>, command |-> "attack"]   \* 'attack': 'attack'
   , [keyword |-> <<"u9632", "u5fa1">>, command |-> "defend"]   \* '防御': 'defend'
   , [keyword |-> <<"h_bo", "h_u", "h_gi", "h_small_yo">>, command |-> "defend"]   \* 'ぼうぎょ': 'defend'
   , [keyword |-> <<"d", "e", "f", "e", "n", "d">>, command |-> "defend"]   \* 'defend': 'defend'
   , [keyword |-> <<"u64a4", "u9000">>, command |-> "retreat"]   \* '撤退': 'retreat'
   , [keyword |-> <<"h_te", "h_small_tu", "h_ta", "h_i">>, command |-> "retreat"]   \* 'てったい': 'retreat'
   , [keyword |-> <<"r", "e", "t", "r", "e", "a", "t">>, command |-> "retreat"]   \* 'retreat': 'retreat'
   , [keyword |-> <<"u72b6", "u6cc1">>, command |-> "status"]   \* '状況': 'status'
   , [keyword |-> <<"h_zi", "h_small_yo", "h_u", "h_ki", "h_small_yo", "h_u">>, command |-> "status"]   \* 'じょうきょう': 'status'
   , [keyword |-> <<"s", "t", "a", "t", "u", "s">>, command |-> "status"]   \* 'status': 'status'
  >>

\* The attack patterns of initializeNaturalLanguagePatterns: the list of
\* AdvancedVoiceRecognition without its last two entries
Unified_patterns_attack ==
  SubSeq(patterns_attack, 1, Len(patterns_attack) - 2)

\* advancedFeatures.naturalLanguagePatterns: four entries, no combo entries;
\* the defend, retreat and status lists are those of AdvancedVoiceRecognition
Unified_naturalLanguagePatterns ==
  << [key |-> "attack",  val |-> Unified_patterns_attack]
   , [key |-> "defend",  val |-> patterns_defend]
   , [key |-> "retreat", val |-> patterns_retreat]
   , [key |-> "status",  val |-> patterns_status]
  >>

\* The keyword loop of UnifiedVoiceRecognition.parseAdvancedCommand
RECURSIVE Unified_keywordScan(_, _, _)
Unified_keywordScan(lowerTranscript, i, commands) ==
  IF i > Len(Unified_commandMap) THEN commands
  ELSE LET entry == Unified_commandMap[i]
           hit == includes(lowerTranscript, toLowerCase(entry.keyword))
       IN  Unified_keywordScan(lowerTranscript, i + 1,
             IF hit /\ ~ SetHas(commands, entry.command)
             THEN Append(commands, entry.command) ELSE commands)

\* UnifiedVoiceRecognition.parseAdvancedCommand; its checkLearnedPatterns is
\* that of AdvancedVoiceRecognition read on advancedFeatures.learnedCommands
Unified_parseAdvancedCommand(learned, transcript) ==
  LET lowerTranscript == toLowerCase(transcript)
      learnedCommand  == checkLearnedPatterns(learned, transcript)
  IN  IF learnedCommand # NoCommand THEN <<learnedCommand>>
      ELSE Unified_keywordScan(lowerTranscript, 1, <<>>)

\* UnifiedVoiceRecognition.parseNaturalLanguage
Unified_parseNaturalLanguage(transcript) ==
  LET lowerTranscript == toLowerCase(transcript)
      hits == {i \in 1..Len(Unified_naturalLanguagePatterns) :
                 \E j \in 1..Len(Unified_naturalLanguagePatterns[i].val) :
                    test(Unified_naturalLanguagePatterns[i].val[j], lowerTranscript)}
  IN  IF hits = {} THEN NoCommand ELSE Unified_naturalLanguagePatterns[Min(hits)].key

\* The command analysis of UnifiedVoiceRecognition.processRecognitionResult
Unified_matchCommands(learned, transcript) ==
  LET commands == Unified_parseAdvancedCommand(learned, transcript)
      naturalCommand == Unified_parseNaturalLanguage(transcript)
  IN  IF commands # <<>> THEN commands
      ELSE IF naturalCommand # NoCommand THEN <<naturalCommand>>
      ELSE <<>>

\* advancedFeatures.queueProcessingDelay, in ms
queueProcessingDelay == 1000

\* The dispatcher's fields as one record: those of State, the timer queue
\* of queueCommands, the time, and for the history the number of the
\* utterance being handled and what the application's onCommand handler
\* answers in this step.
UnifiedState(utterance, ok) ==
  State @@ [ scheduled |-> scheduled,
             delivered |-> delivered,
             clock     |-> clock,
             utterance |-> utterance,
             ok        |-> ok ]

\* The step's result written back
UnifiedBecomes(s) ==
  /\ Becomes(s)
  /\ scheduled' = s.scheduled
  /\ delivered' = s.delivered

\* UnifiedVoiceRecognition.learnSuccessfulPattern: the phrase joins the
\* command's candidate set; nothing is promoted and nothing is saved
Unified_learnSuccessfulPattern(s, transcript, commands) ==
  LET key     == trim(toLowerCase(transcript))
      command == commands[1]
      up0     == IF MapHas(s.userPatterns, command) THEN s.userPatterns
                 ELSE MapSet(s.userPatterns, command, <<>>)
  IN  [s EXCEPT !.userPatterns = MapSet(up0, command, SetAdd(MapGet(up0, command), key)),
                !.recorded = Append(@, <<key, command>>)]

\* UnifiedVoiceRecognition.executeCommand: callbacks.onCommand(command,
\* originalText).  token says which setTimeout callback of which sequence
\* made the call, NoToken for a single command run at once.
Unified_executeCommand(s, command, originalText, token) ==
  [ emit(s, Output("onCommand", command, originalText, 0)) EXCEPT
      !.delivered = Append(@, [ command      |-> command,
                                originalText |-> originalText,
                                at           |-> s.clock,
                                ok           |-> s.ok,
                                token        |-> token ]) ]

NoToken == [utterance |-> 0, index |-> 0, since |-> 0, sequence |-> <<>>]

\* queueCommands that counts the delays from one: the first command would
\* wait a whole delay too
Unified_queueCommands_DelayFromOne(s, commands, originalText) ==
  LET notified == emit(s, Output("onCommandQueue", "queue", commands, Len(commands)))
  IN  [ notified EXCEPT !.scheduled =
          @ \o [ i \in 1..Len(commands) |->
                   [ due          |-> s.clock + i * queueProcessingDelay,
                     command      |-> commands[i],
                     originalText |-> originalText,
                     token        |-> [ utterance |-> s.utterance,
                                        index     |-> i,
                                        since     |-> s.clock,
                                        sequence  |-> commands ] ] ] ]

\* UnifiedVoiceRecognition.queueCommands: onCommandQueue(commands), then one
\* setTimeout per command, the command at index i due i * delay from now
Unified_queueCommands(s, commands, originalText) ==
  LET notified == emit(s, Output("onCommandQueue", "queue", commands, Len(commands)))
  IN  [ notified EXCEPT !.scheduled =
          @ \o [ i \in 1..Len(commands) |->
                   [ due          |-> s.clock + (i - 1) * queueProcessingDelay,
                     command      |-> commands[i],
                     originalText |-> originalText,
                     token        |-> [ utterance |-> s.utterance,
                                        index     |-> i,
                                        since     |-> s.clock,
                                        sequence  |-> commands ] ] ] ]

\* UnifiedVoiceRecognition.requestConfirmationWithSystem: the request is
\* announced through callbacks.onConfirmationRequest and nothing else is done
Unified_requestConfirmationWithSystem(s, command, transcript, confidence, allCommands) ==
  emit(s, Output("onConfirmationRequest", command, transcript, confidence))

\* UnifiedVoiceRecognition.handleUnrecognizedInput
Unified_handleUnrecognizedInput(s, transcript) ==
  emit(s, Output("onError", "unrecognized", transcript, 0))

\* UnifiedVoiceRecognition.processRecognitionResult.  Its addToContext is
\* that of AdvancedVoiceRecognition.  The branch for a pending confirmation
\* is written as in the source; the ConfirmationSystem it would run is the
\* one modelled above.
Unified_processRecognitionResult(s, transcript, confidence) ==
  LET noted    == addToContext(s, transcript)
      pending  == noted.confirmationSystem /\ hasPendingConfirmation(noted)
      answer   == handleConfirmationResponse(noted, transcript)
      from     == IF pending THEN answer.state ELSE noted
      commands == Unified_matchCommands(from.learnedCommands, transcript)
  IN  IF pending /\ answer.handled THEN answer.state
      ELSE IF commands = <<>> THEN Unified_handleUnrecognizedInput(from, transcript)
      ELSE IF from.confirmationSystem /\ shouldConfirm(commands[1], transcript, confidence)
      THEN Unified_requestConfirmationWithSystem(from, commands[1], transcript,
                                                 confidence, commands)
      ELSE LET learned == Unified_learnSuccessfulPattern(from, transcript, commands)
           IN  IF Len(commands) = 1
               THEN Unified_executeCommand(learned, commands[1], transcript, NoToken)
               ELSE Unified_queueCommands(learned, commands, transcript)

\* The number of half delays a behaviour is followed for
MaxTicks == 3

\* The number of final results the dispatcher is given
MaxUtterances == 2

\* The final results an engine reports to the dispatcher
UnifiedInputs ==
  { [text |-> T_kougeki,       confidence |-> 90],
    [text |-> T_kougeki,       confidence |-> 55],
    [text |-> T_combo,         confidence |-> 90],
    [text |-> T_status_attack, confidence |-> 90],
    [text |-> T_hai,           confidence |-> 90] }

\* The state VoiceCommanderApp.initializeSystems leaves when
\* UnifiedVoiceRecognition.init succeeds: advancedFeatures on a cold store,
\* and initConfirmationSystem called once
InitDispatcher ==
  /\ userPatterns = <<>>
  /\ learnedCommands = <<>>
  /\ contextHistory = <<>>
  /\ commandQueue = <<>>
  /\ processingQueue = FALSE
  /\ confirmationSystem \in BOOLEAN
  /\ pendingConfirmation = <<>>
  /\ confirmationTimeout = 0
  /\ timers = {}
  /\ nextTimer = 1
  /\ localStorage = <<>>
  /\ out = <<>>
  /\ ev = NoEvent
  /\ events = 0
  /\ requests = 0
  /\ superseded = {}
  /\ recorded = <<>>
  /\ loadedKeys = {}
  /\ call = NoCall
  /\ ret = NoReturn
  /\ isListening = FALSE
  /\ scheduled = <<>>
  /\ clock = 0
  /\ delivered = <<>>

\* The dispatcher with its engines as constructed
InitUnified ==
  /\ InitDispatcher
  /\ whisper = WhisperWASMEngine_constructor
  /\ webSpeech = WebSpeechEngine_constructor
  /\ audio = AudioProcessor_constructor
  /\ unified = UnifiedVoiceRecognition_constructor

\* UnifiedVoiceRecognition.start: currentEngine.start()
Unified_start ==
  /\ ~ isListening
  /\ isListening' = TRUE
  /\ UnifiedBecomes(UnifiedState(0, TRUE))
  /\ UNCHANGED <<ev, events, call, ret, clock, whisper, webSpeech, audio, unified>>

\* UnifiedVoiceRecognition.stop: currentEngine.stop(), and nothing else
Unified_stop ==
  /\ isListening
  /\ isListening' = FALSE
  /\ UnifiedBecomes(UnifiedState(0, TRUE))
  /\ UNCHANGED <<ev, events, call, ret, clock, whisper, webSpeech, audio, unified>>

\* The onResult callback of setupEngineCallbacks, for a final result; ev
\* keeps the last result reported
Unified_onResult(text, confidence, ok) ==
  /\ isListening
  /\ events < MaxUtterances
  /\ UnifiedBecomes(Unified_processRecognitionResult(
                      UnifiedState(events + 1, ok), text, confidence))
  /\ ev' = [kind |-> "result", text |-> text, confidence |-> confidence]
  /\ events' = events + 1
  /\ UNCHANGED <<call, ret, isListening, clock, whisper, webSpeech, audio, unified>>

\* The scheduled callbacks that are due, and the one the timer queue runs
\* next: the earliest due, the earliest set among equals
dueNow == {i \in 1..Len(scheduled) : scheduled[i].due <= clock}

nextDue ==
  CHOOSE i \in dueNow :
    \A j \in dueNow : scheduled[i].due < scheduled[j].due
                        \/ (scheduled[i].due = scheduled[j].due /\ i <= j)

\* A setTimeout callback of queueCommands runs: executeCommand(command, originalText)
Unified_scheduledFires(ok) ==
  /\ dueNow # {}
  /\ LET entry == scheduled[nextDue]
         rest  == [UnifiedState(entry.token.utterance, ok) EXCEPT
                     !.scheduled = SubSeq(scheduled, 1, nextDue - 1)
                                   \o SubSeq(scheduled, nextDue + 1, Len(scheduled))]
     IN  UnifiedBecomes(Unified_executeCommand(rest, entry.command,
                                               entry.originalText, entry.token))
  /\ UNCHANGED <<ev, events, call, ret, isListening, clock, whisper, webSpeech, audio, unified>>

\* Half a delay passes; callbacks that are due run first
Unified_timePasses ==
  /\ dueNow = {}
  /\ clock < MaxTicks * (queueProcessingDelay \div 2)
  /\ clock' = clock + queueProcessingDelay \div 2
  /\ UnifiedBecomes(UnifiedState(0, TRUE))
  /\ UNCHANGED <<ev, events, call, ret, isListening, whisper, webSpeech, audio, unified>>

NextUnified ==
  \/ Unified_start
  \/ Unified_stop
  \/ \E i \in UnifiedInputs, ok \in BOOLEAN : Unified_onResult(i.text, i.confidence, ok)
  \/ \E ok \in BOOLEAN : Unified_scheduledFires(ok)
  \/ Unified_timePasses

SpecUnified == InitUnified /\ [][NextUnified]_vars

(***************************************************************************)
(* The Whisper engine: WhisperWASMEngine                                   *)
(***************************************************************************)

\* The dispatcher's variables, which the engines leave alone
dispatcherVars ==
  << userPatterns, learnedCommands, contextHistory, commandQueue, processingQueue,
     confirmationSystem, pendingConfirmation, confirmationTimeout, timers, nextTimer,
     localStorage, out, ev, events, requests, superseded, recorded, loadedKeys,
     call, ret, isListening, scheduled, clock, delivered, unified >>

besidesWhisper == <<dispatcherVars, webSpeech, audio>>

\* The while loop of processQueuedAudio from its head to the point where it
\* suspends in the await of transcribeAudio or leaves through finally.
\* transcribeAudio throws before its try when there is no context; the
\* catch of processQueuedAudio takes that and finally clears isProcessing.
Whisper_loop(w) ==
  IF w.processingQueue = <<>> THEN [w EXCEPT !.isProcessing = FALSE]
  ELSE LET audioItem == Head(w.processingQueue)
           shifted   == [w EXCEPT !.processingQueue = Tail(@)]
       IN  IF ~ shifted.whisperContext
           THEN [shifted EXCEPT !.isProcessing = FALSE]
           ELSE [shifted EXCEPT !.calls = @ \cup {audioItem},
                                !.begun = Append(@, audioItem)]

\* WhisperWASMEngine.processQueuedAudio up to its first suspension
Whisper_processQueuedAudio(w) ==
  IF w.isProcessing \/ w.processingQueue = <<>> THEN w
  ELSE Whisper_loop([w EXCEPT !.isProcessing = TRUE])

\* WhisperWASMEngine.processAudioData
Whisper_processAudioData(w, audioData) ==
  IF ~ w.isListening \/ w.isProcessing THEN w
  ELSE Whisper_processQueuedAudio([w EXCEPT !.processingQueue = Append(@, audioData)])

\* VoiceRecognitionEngine.notifyResult: callbacks.onResult(transcript,
\* confidence, isFinal); the history notes whether the engine was listening
Whisper_notifyResult(w, audioData) ==
  [w EXCEPT !.notified = Append(@, [utterance |-> audioData, listening |-> w.isListening])]

\* WhisperWASMEngine.stop
Whisper_stopped(w) ==
  IF ~ w.isListening THEN w ELSE [w EXCEPT !.isListening = FALSE]

\* The number of utterances the audio processor reports
MaxSpeech == 3

\* What whisperModule.transcribe can answer: a text, no text, or a rejection
TranscribeResults == {"text", "empty", "error"}

InitWhisper ==
  /\ InitUnified
  /\ confirmationSystem

\* The engine after WhisperWASMEngine.init has succeeded
Whisper_initialized(w) ==
  [w EXCEPT !.audioProcessor = TRUE,
            !.whisperContext = TRUE,
            !.isInitialized = TRUE]

\* The engine after WhisperWASMEngine.cleanup
Whisper_cleanedUp(w) ==
  [Whisper_stopped(w) EXCEPT
     !.isInitialized = FALSE,
     !.processingQueue = <<>>,
     !.isProcessing = FALSE,
     !.whisperContext = FALSE,
     !.audioProcessor = FALSE]

\* WhisperWASMEngine.init, from switchEngine or initializeDefaultEngine,
\* which call it on an engine that is not initialized
Whisper_init ==
  /\ ~ whisper.isInitialized
  /\ whisper' = Whisper_initialized(whisper)
  /\ UNCHANGED besidesWhisper

\* WhisperWASMEngine.start
Whisper_start ==
  /\ whisper.isInitialized
  /\ ~ whisper.isListening
  /\ whisper' = [whisper EXCEPT !.isListening = TRUE]
  /\ UNCHANGED besidesWhisper

\* WhisperWASMEngine.stop
Whisper_stop ==
  /\ whisper.isListening
  /\ whisper' = Whisper_stopped(whisper)
  /\ UNCHANGED besidesWhisper

\* The onSpeechEnd callback of the audio processor: processAudioData
Whisper_onSpeechEnd ==
  /\ whisper.audioProcessor
  /\ whisper.utterances < MaxSpeech
  /\ LET audioData == whisper.utterances + 1
         counted   == [whisper EXCEPT
                         !.utterances = audioData,
                         !.heard = IF whisper.isListening THEN @ \cup {audioData} ELSE @]
     IN  whisper' = Whisper_processAudioData(counted, audioData)
  /\ UNCHANGED besidesWhisper

\* A whisperModule.transcribe call settles and transcribeAudio goes on after
\* its await: the result is notified if it has text, and the loop of
\* processQueuedAudio that awaited transcribeAudio takes its next turn
Whisper_transcribeSettles(audioData, result) ==
  /\ audioData \in whisper.calls
  /\ LET settled == [whisper EXCEPT !.calls = @ \ {audioData}]
         told    == IF result = "text" THEN Whisper_notifyResult(settled, audioData)
                    ELSE settled
     IN  whisper' = Whisper_loop(told)
  /\ UNCHANGED besidesWhisper

\* WhisperWASMEngine.cleanup, as switchEngine calls it on the engine it leaves
Whisper_cleanup ==
  /\ whisper.isInitialized
  /\ whisper' = Whisper_cleanedUp(whisper)
  /\ UNCHANGED besidesWhisper

NextWhisper ==
  \/ Whisper_init
  \/ Whisper_start
  \/ Whisper_stop
  \/ Whisper_onSpeechEnd
  \/ \E audioData \in 1..MaxSpeech, result \in TranscribeResults :
        Whisper_transcribeSettles(audioData, result)
  \/ Whisper_cleanup

SpecWhisper == InitWhisper /\ [][NextWhisper]_vars

(***************************************************************************)
(* The online engine: WebSpeechEngine                                      *)
(***************************************************************************)

besidesWebSpeech == <<dispatcherVars, whisper, audio>>

\* notifyStatusChange that leaves isListening as it is
WebSpeech_notifyStatusChange_FlagKept(e, status) ==
  [e EXCEPT !.statuses = Append(@, status)]

\* VoiceRecognitionEngine.notifyStatusChange: isListening follows the status
WebSpeech_notifyStatusChange(e, status) ==
  [e EXCEPT !.isListening = (status = "listening"),
            !.statuses = Append(@, status)]

\* recognition.start() of the browser's recognizer: it throws unless the
\* recognizer is idle
recognitionStarts(e) == e.recognition = "idle"

\* WebSpeechEngine.scheduleRestart: the 500 ms timer is set again
WebSpeech_scheduleRestart(e) ==
  IF ~ e.isListening THEN e
  ELSE [e EXCEPT !.restartTimeout = TRUE, !.restartArmed = TRUE]

\* The callback of the timer of scheduleRestart; a start that throws sets
\* the 1000 ms timer that calls scheduleRestart again
WebSpeech_restart(e) ==
  IF ~ e.isListening THEN e
  ELSE IF recognitionStarts(e) THEN [e EXCEPT !.recognition = "starting"]
  ELSE [e EXCEPT !.retryArmed = TRUE]

\* WebSpeechEngine.stop
WebSpeech_stopped(e) ==
  IF ~ e.isListening THEN e
  ELSE [e EXCEPT !.isListening = FALSE,
                 !.restartTimeout = FALSE,
                 !.restartArmed = FALSE,
                 !.recognition = IF @ \in {"starting", "running"} THEN "stopping" ELSE @]

\* start() that does not look at isListening: it calls recognition.start()
\* on a recognizer that is started already, which throws
WebSpeech_started_NoListeningCheck(e) ==
  IF ~ e.isInitialized
  THEN [e EXCEPT !.returned = "false"]
  ELSE IF recognitionStarts(e)
  THEN [e EXCEPT !.recognition = "starting",
                 !.isListening = TRUE,
                 !.wanted = TRUE,
                 !.fatal = FALSE,
                 !.returned = "true"]
  ELSE [e EXCEPT !.wanted = TRUE, !.fatal = FALSE,
                 !.returned = "false"]

\* WebSpeechEngine.start: the engine after the call, returned holding what
\* the call returned
WebSpeech_started(e) ==
  IF ~ e.isInitialized
  THEN [e EXCEPT !.returned = "false"]
  ELSE IF e.isListening
  THEN [e EXCEPT !.returned = "true", !.wanted = TRUE,
                         !.fatal = FALSE]
  ELSE IF recognitionStarts(e)
  THEN [e EXCEPT !.recognition = "starting",
                         !.isListening = TRUE,
                         !.wanted = TRUE,
                         !.fatal = FALSE,
                         !.returned = "true"]
  ELSE [e EXCEPT !.wanted = TRUE, !.fatal = FALSE,
                         !.returned = "false"]

\* handleRecognitionError: the errors after which a restart is wanted
shouldRestart(error) == error \in {"network", "no-speech", "other"}

\* The errors the recognizer reports
RecognitionErrors ==
  {"network", "not-allowed", "audio-capture", "no-speech", "aborted",
   "service-not-allowed", "other"}

\* The number of status changes and errors the recognizer reports
MaxNotices == 4

InitWebSpeech ==
  /\ InitDispatcher
  /\ confirmationSystem
  /\ whisper = WhisperWASMEngine_constructor
  /\ audio = AudioProcessor_constructor
  /\ unified = UnifiedVoiceRecognition_constructor
  /\ \E supported \in BOOLEAN :
        webSpeech = [WebSpeechEngine_constructor EXCEPT !.isSupported = supported]

\* The engine after WebSpeechEngine.cleanup
WebSpeech_cleanedUp(e) ==
  [WebSpeech_stopped(e) EXCEPT
     !.wanted = FALSE,
     !.fatal = FALSE,
     !.isInitialized = FALSE,
     !.restartTimeout = FALSE,
     !.restartArmed = FALSE,
     !.recognition = "null"]

\* WebSpeechEngine.init, which switchEngine calls on an engine that is not
\* initialized
WebSpeech_init ==
  /\ ~ webSpeech.isInitialized
  /\ webSpeech' = IF ~ webSpeech.isSupported THEN webSpeech
                  ELSE [webSpeech EXCEPT !.recognition = "idle", !.isInitialized = TRUE]
  /\ UNCHANGED besidesWebSpeech

\* WebSpeechEngine.start
WebSpeech_start ==
  /\ webSpeech' = WebSpeech_started(webSpeech)
  /\ UNCHANGED besidesWebSpeech

\* WebSpeechEngine.stop
WebSpeech_stop ==
  /\ webSpeech.isListening \/ webSpeech.wanted
  /\ webSpeech' = [WebSpeech_stopped(webSpeech) EXCEPT !.wanted = FALSE]
  /\ UNCHANGED besidesWebSpeech

\* recognition.onstart
WebSpeech_onstart ==
  /\ webSpeech.recognition = "starting"
  /\ Len(webSpeech.statuses) < MaxNotices
  /\ webSpeech' = WebSpeech_notifyStatusChange(
                    [webSpeech EXCEPT !.recognition = "running"], "listening")
  /\ UNCHANGED besidesWebSpeech

\* recognition.onend
WebSpeech_onend ==
  /\ webSpeech.recognition \in {"running", "stopping"}
  /\ Len(webSpeech.statuses) < MaxNotices
  /\ webSpeech' = WebSpeech_scheduleRestart(
                    WebSpeech_notifyStatusChange(
                      [webSpeech EXCEPT !.recognition = "idle"], "stopped"))
  /\ UNCHANGED besidesWebSpeech

\* recognition.onerror: handleRecognitionError; the recognizer ends after it
WebSpeech_onerror(error) ==
  /\ webSpeech.recognition \in {"starting", "running"}
  /\ Len(webSpeech.statuses) < MaxNotices
  /\ LET failed == [webSpeech EXCEPT !.recognition = "stopping",
                                     !.statuses = Append(@, error),
                                     !.fatal = ~ shouldRestart(error)]
     IN  webSpeech' = IF shouldRestart(error) /\ failed.isListening
                      THEN WebSpeech_scheduleRestart(failed)
                      ELSE failed
  /\ UNCHANGED besidesWebSpeech

\* The 500 ms timer of scheduleRestart fires
WebSpeech_restartTimerFires ==
  /\ webSpeech.restartArmed
  /\ webSpeech' = WebSpeech_restart([webSpeech EXCEPT !.restartArmed = FALSE])
  /\ UNCHANGED besidesWebSpeech

\* The 1000 ms timer set after a restart that threw fires
WebSpeech_retryTimerFires ==
  /\ webSpeech.retryArmed
  /\ webSpeech' = WebSpeech_scheduleRestart([webSpeech EXCEPT !.retryArmed = FALSE])
  /\ UNCHANGED besidesWebSpeech

\* WebSpeechEngine.cleanup, as switchEngine calls it on the engine it leaves
WebSpeech_cleanup ==
  /\ webSpeech.isInitialized
  /\ webSpeech' = WebSpeech_cleanedUp(webSpeech)
  /\ UNCHANGED besidesWebSpeech

NextWebSpeech ==
  \/ WebSpeech_init
  \/ WebSpeech_start
  \/ WebSpeech_stop
  \/ WebSpeech_onstart
  \/ WebSpeech_onend
  \/ \E error \in RecognitionErrors : WebSpeech_onerror(error)
  \/ WebSpeech_restartTimerFires
  \/ WebSpeech_retryTimerFires
  \/ WebSpeech_cleanup

SpecWebSpeech == InitWebSpeech /\ [][NextWebSpeech]_vars

(***************************************************************************)
(* Voice activity segmentation: AudioProcessor                             *)
(***************************************************************************)

besidesAudio ==
  << userPatterns, learnedCommands, contextHistory, commandQueue, processingQueue,
     confirmationSystem, pendingConfirmation, confirmationTimeout, timers, nextTimer,
     localStorage, out, ev, events, requests, superseded, recorded, loadedKeys,
     call, ret, isListening, scheduled, delivered, whisper, webSpeech, unified >>

\* AudioProcessor.silenceTimeout, in ms
silenceTimeout == 800

\* AudioProcessor.minSpeechDuration, in ms
minSpeechDuration == 200

\* The time one buffer of bufferSize samples covers, in ms, rounded: the
\* interval between two onaudioprocess events
frameDuration == 100

\* handleSpeechEnd that leaves the silence timer armed
Audio_handleSpeechEnd_TimerKept(a, now, by) ==
  IF a.speechStartTime = -1 THEN a
  ELSE LET speechDuration == now - a.speechStartTime
       IN  [a EXCEPT
             !.ended = Append(@, [ speech    |-> a.lastSpeechTime - a.speechStartTime
                                                   + frameDuration,
                                   duration  |-> speechDuration,
                                   by        |-> by,
                                   handed    |-> speechDuration >= minSpeechDuration,
                                   cancelled |-> a.silenceTimer # -1,
                                   resumed   |-> a.resumed ]),
             !.resumed = FALSE,
             !.speechStartTime = -1,
             !.isProcessing = FALSE]

\* AudioProcessor.handleSpeechEnd at time now
Audio_handleSpeechEnd(a, now, by) ==
  IF a.speechStartTime = -1 THEN a
  ELSE LET speechDuration == now - a.speechStartTime
       IN  [a EXCEPT
             !.ended = Append(@, [ speech    |-> a.lastSpeechTime - a.speechStartTime
                                                   + frameDuration,
                                   duration  |-> speechDuration,
                                   by        |-> by,
                                   handed    |-> speechDuration >= minSpeechDuration,
                                   cancelled |-> a.silenceTimer # -1,
                                   resumed   |-> a.resumed ]),
             !.resumed = FALSE,
             !.speechStartTime = -1,
             !.isProcessing = FALSE,
             !.silenceTimer = -1]

\* handleSpeechDetection that leaves an armed silence timer running
Audio_handleSpeechDetection_TimerRuns(a, now) ==
  LET heard == [a EXCEPT !.lastSpeechTime = now,
                         !.resumed = @ \/ a.silenceTimer # -1]
  IN  IF heard.speechStartTime = -1
      THEN [heard EXCEPT !.speechStartTime = now, !.isProcessing = TRUE]
      ELSE heard

\* AudioProcessor.handleSpeechDetection at time now
Audio_handleSpeechDetection(a, now) ==
  LET heard == [a EXCEPT !.lastSpeechTime = now, !.silenceTimer = -1,
                         !.resumed = @ \/ a.silenceTimer # -1]
  IN  IF heard.speechStartTime = -1
      THEN [heard EXCEPT !.speechStartTime = now, !.isProcessing = TRUE]
      ELSE heard

\* AudioProcessor.handleSilenceDetection at time now
Audio_handleSilenceDetection(a, now) ==
  IF a.speechStartTime = -1 THEN a
  ELSE IF a.silenceTimer = -1 THEN [a EXCEPT !.silenceTimer = now + silenceTimeout]
  ELSE a

\* AudioProcessor.processAudioData for a buffer that is speech, silence, or
\* arrives while window.ttsActive is set
Audio_processAudioData(a, now, frame) ==
  IF ~ a.isRecording \/ frame = "tts" THEN a
  ELSE IF frame = "speech" THEN Audio_handleSpeechDetection(a, now)
  ELSE Audio_handleSilenceDetection(a, now)

\* The number of buffers a behaviour is followed for
MaxFrames == 12

Frames == {"speech", "silence", "tts"}

InitAudio ==
  /\ InitUnified
  /\ confirmationSystem

\* AudioProcessor.startRecording on an initialized processor
Audio_startRecording ==
  /\ ~ audio.isRecording
  /\ audio' = [audio EXCEPT !.isRecording = TRUE]
  /\ UNCHANGED <<besidesAudio, clock>>

\* AudioProcessor.stopRecording
Audio_stopRecording ==
  /\ audio.isRecording
  /\ audio' = LET stopped == [audio EXCEPT !.isRecording = FALSE, !.isProcessing = FALSE]
              IN  IF stopped.speechStartTime # -1
                  THEN Audio_handleSpeechEnd(stopped, clock, "stop")
                  ELSE stopped
  /\ UNCHANGED <<besidesAudio, clock>>

\* The time of one buffer passes and onaudioprocess delivers it
Audio_onaudioprocess(frame) ==
  /\ audio.silenceTimer = -1 \/ audio.silenceTimer > clock
  /\ clock < MaxFrames * frameDuration
  /\ clock' = clock + frameDuration
  /\ audio' = Audio_processAudioData(audio, clock', frame)
  /\ UNCHANGED besidesAudio

\* The silence timer fires: handleSpeechEnd
Audio_silenceTimerFires ==
  /\ audio.silenceTimer # -1
  /\ audio.silenceTimer <= clock
  /\ audio' = Audio_handleSpeechEnd([audio EXCEPT !.silenceTimer = -1], clock, "silence")
  /\ UNCHANGED <<besidesAudio, clock>>

NextAudio ==
  \/ Audio_startRecording
  \/ Audio_stopRecording
  \/ \E frame \in Frames : Audio_onaudioprocess(frame)
  \/ Audio_silenceTimerFires

SpecAudio == InitAudio /\ [][NextAudio]_vars

(***************************************************************************)
(* The pipeline on a store that has been in use                            *)
(***************************************************************************)

\* "守って"
T_mamotte == <<"u5b88", "h_small_tu", "h_te">>

\* AdvancedVoiceRecognition as constructed on a cold store, with its
\* ConfirmationSystem
Constructed ==
  [ userPatterns        |-> <<>>,
    learnedCommands     |-> <<>>,
    contextHistory      |-> <<>>,
    commandQueue        |-> <<>>,
    processingQueue     |-> FALSE,
    confirmationSystem  |-> TRUE,
    pendingConfirmation |-> <<>>,
    confirmationTimeout |-> 0,
    timers              |-> {},
    nextTimer           |-> 1,
    localStorage        |-> <<>>,
    out                 |-> <<>>,
    requests            |-> 0,
    superseded          |-> {},
    recorded            |-> <<>>,
    loadedKeys          |-> {} ]

\* The transcripts recognized first, all at confidence 0.9, oldest first:
\* "シールドON", "守って", "防御", "攻撃してから防御", "攻撃", "敵をやっつけて"
Earlier == <<T_shield_on, T_mamotte, T_bougyo, T_combo, T_kougeki, T_yattsukete>>

\* Everything as constructed on a cold store, a ConfirmationSystem created
InitConstructed ==
  /\ userPatterns = Constructed.userPatterns
  /\ learnedCommands = Constructed.learnedCommands
  /\ contextHistory = Constructed.contextHistory
  /\ commandQueue = Constructed.commandQueue
  /\ processingQueue = Constructed.processingQueue
  /\ confirmationSystem = Constructed.confirmationSystem
  /\ pendingConfirmation = Constructed.pendingConfirmation
  /\ confirmationTimeout = Constructed.confirmationTimeout
  /\ timers = Constructed.timers
  /\ nextTimer = Constructed.nextTimer
  /\ localStorage = Constructed.localStorage
  /\ out = <<>>
  /\ ev = NoEvent
  /\ requests = Constructed.requests
  /\ superseded = Constructed.superseded
  /\ recorded = Constructed.recorded
  /\ loadedKeys = Constructed.loadedKeys
  /\ call = NoCall
  /\ ret = NoReturn
  /\ isListening = FALSE
  /\ scheduled = <<>>
  /\ clock = 0
  /\ delivered = <<>>
  /\ whisper = WhisperWASMEngine_constructor
  /\ webSpeech = WebSpeechEngine_constructor
  /\ audio = AudioProcessor_constructor
  /\ unified = UnifiedVoiceRecognition_constructor

\* The pipeline as constructed.  events counts the transcripts from
\* -Len(Earlier): the earlier ones come first.
InitTrained ==
  /\ InitConstructed
  /\ events = 0 - Len(Earlier)

\* recognition.onresult for the next of the earlier transcripts
earlierResult ==
  /\ events < 0
  /\ onresult(Earlier[Len(Earlier) + events + 1], 90)

\* The final results the recognizer delivers from then on
TrainedInputs ==
  { [text |-> T_tettai,        confidence |-> 55],
    [text |-> T_tettai,        confidence |-> 90],
    [text |-> T_combo,         confidence |-> 90],
    [text |-> T_kougeki,       confidence |-> 90],
    [text |-> T_status_attack, confidence |-> 90],
    [text |-> T_hai,           confidence |-> 90],
    [text |-> T_eeto,          confidence |-> 90] }

\* AdvancedVoiceRecognition.resetLearning
resetLearning(s) ==
  [s EXCEPT !.userPatterns = <<>>,
            !.learnedCommands = <<>>,
            !.contextHistory = <<>>,
            !.localStorage = <<>>]

\* resetLearning() is called
reset ==
  /\ ev.kind # "reset"
  /\ Becomes(resetLearning(State))
  /\ ev' = [kind |-> "reset", text |-> <<>>, confidence |-> 0]
  /\ UNCHANGED <<events, call, ret, isListening, otherVars>>

\* The earlier transcripts first, then anything
NextTrained ==
  \/ start
  \/ earlierResult
  \/ events >= 0 /\ stop
  \/ events >= 0 /\ \E i \in TrainedInputs : onresult(i.text, i.confidence)
  \/ events >= 0 /\ confirmationTimerFires
  \/ events >= 0 /\ queueTimerFires
  \/ events >= 0 /\ reload
  \/ events >= 0 /\ reset

SpecTrained == InitTrained /\ [][NextTrained]_vars

(***************************************************************************)
(* The unified dispatcher after earlier results                            *)
(***************************************************************************)

\* The results reported first, both at confidence 0.9: "攻撃", "敵をやっつけて"
Unified_Earlier == <<T_kougeki, T_yattsukete>>

\* The dispatcher as initialized on a cold store, with its
\* ConfirmationSystem.  events counts the results from -Len(Unified_Earlier):
\* the earlier ones come first.
InitUnifiedTrained ==
  /\ InitConstructed
  /\ events = 0 - Len(Unified_Earlier)

\* The onResult callback for the next of the earlier results
Unified_earlierResult ==
  /\ events < 0
  /\ Unified_onResult(Unified_Earlier[Len(Unified_Earlier) + events + 1], 90, TRUE)

\* The earlier results first, then anything
NextUnifiedTrained ==
  \/ Unified_start
  \/ Unified_earlierResult
  \/ events >= 0 /\ Unified_stop
  \/ events >= 0 /\ \E i \in UnifiedInputs, ok \in BOOLEAN :
                        Unified_onResult(i.text, i.confidence, ok)
  \/ events >= 0 /\ \E ok \in BOOLEAN : Unified_scheduledFires(ok)
  \/ events >= 0 /\ Unified_timePasses

SpecUnifiedTrained == InitUnifiedTrained /\ [][NextUnifiedTrained]_vars

(***************************************************************************)
(* The pipeline on a store with a phrase in two candidate sets             *)
(***************************************************************************)

\* The transcripts recognized first, all at confidence 0.9, oldest first:
\* "攻撃してから防御" (recorded under attack), "シールドON", "守って", "防御"
\* (which promotes "防御"), and "攻撃してから防御" again (now resolved by
\* the learned "防御" and recorded under defend)
EarlierTwice == <<T_combo, T_shield_on, T_mamotte, T_bougyo, T_combo>>

\* The pipeline as constructed; events counts the transcripts from
\* -Len(EarlierTwice)
InitTwice ==
  /\ InitConstructed
  /\ events = 0 - Len(EarlierTwice)

\* recognition.onresult for the next of the earlier transcripts
earlierTwiceResult ==
  /\ events < 0
  /\ onresult(EarlierTwice[Len(EarlierTwice) + events + 1], 90)

\* The final results the recognizer delivers from then on
TwiceInputs ==
  { [text |-> T_combo,         confidence |-> 55],
    [text |-> T_tettai,        confidence |-> 90],
    [text |-> T_kougeki,       confidence |-> 90],
    [text |-> T_status_attack, confidence |-> 90],
    [text |-> T_hai,           confidence |-> 90] }

\* The earlier transcripts first, the queue draining meanwhile, then anything
NextTwice ==
  \/ start
  \/ earlierTwiceResult
  \/ events >= 0 /\ stop
  \/ events >= 0 /\ \E i \in TwiceInputs : onresult(i.text, i.confidence)
  \/ events >= 0 /\ confirmationTimerFires
  \/ queueTimerFires
  \/ events >= 0 /\ reload

SpecTwice == InitTwice /\ [][NextTwice]_vars

(***************************************************************************)
(* The pipeline with a full context history                                *)
(***************************************************************************)

\* The transcripts recognized before the ones a behaviour chooses, in order:
\* 「シールドオン」 and then 「攻撃」 and 「敵をやっつけて」 in turn
EarlierHistory ==
  <<T_shield_on, T_kougeki, T_yattsukete, T_kougeki, T_yattsukete,
    T_kougeki, T_yattsukete, T_kougeki, T_yattsukete>>

\* The pipeline as constructed; events counts the transcripts from
\* -Len(EarlierHistory)
InitHistory ==
  /\ InitConstructed
  /\ events = 0 - Len(EarlierHistory)

\* The next earlier transcript is recognized with confidence 0.90
earlierHistoryResult ==
  /\ events < 0
  /\ onresult(EarlierHistory[Len(EarlierHistory) + events + 1], 90)

NextHistory ==
  \/ start
  \/ earlierHistoryResult
  \/ events >= 0 /\ stop
  \/ events >= 0 /\ \E i \in TwiceInputs : onresult(i.text, i.confidence)
  \/ events >= 0 /\ confirmationTimerFires
  \/ queueTimerFires
  \/ events >= 0 /\ reload

SpecHistory == InitHistory /\ [][NextHistory]_vars

(***************************************************************************)
(* The unified dispatcher switching between its engines                    *)
(***************************************************************************)

\* The engine ids switchEngine is called with
EngineTypes == {"webspeech", "whisper"}

\* The number of utterances the audio processor reports while the engines
\* are switched, and the number of status changes the recognizer reports
MaxSwitchEvents == 1

\* The dispatcher and its engines as constructed, before init()
InitSwitch ==
  /\ InitUnified
  /\ confirmationSystem

\* UnifiedVoiceRecognition.registerAvailableEngines: the engines that are
\* supported are registered
Unified_registerAvailableEngines(supported) ==
  /\ unified.availableEngines = {}
  /\ unified' = [unified EXCEPT !.availableEngines = supported]
  /\ UnifiedBecomes(UnifiedState(0, TRUE))
  /\ UNCHANGED <<ev, events, call, ret, isListening, clock,
                 whisper, webSpeech, audio>>

\* setupEngineCallbacks: the current engine is given the dispatcher's callbacks
Unified_setupEngineCallbacks(u) ==
  [u EXCEPT !.callbacks = @ \cup {u.currentEngine}]

\* switchEngine from its call to its first suspension or its end.  An id
\* that is not registered throws at once.  Otherwise the current engine is
\* stopped and cleaned up and the new one becomes current.  If it is
\* initialized the call finishes.  If it is not, init() is awaited:
\* WebSpeechEngine.init has no await of its own, it has succeeded (ok) or
\* thrown when switchEngine goes on; WhisperWASMEngine.init loads its
\* module and model and settles later.
Unified_switchEngine(engineType, ok) ==
  /\ unified.availableEngines # {}
  /\ unified.awaited = "null"
  /\ LET called == [engineType  |-> engineType,
                    previous    |-> unified.currentEngine,
                    initialized |-> \/ /\ unified.currentEngine = "whisper"
                                       /\ whisper.isInitialized
                                    \/ /\ unified.currentEngine = "webspeech"
                                       /\ webSpeech.isInitialized,
                    outcome     |-> "pending"]
         whisperLeft == IF unified.currentEngine = "whisper"
                        THEN Whisper_cleanedUp(whisper) ELSE whisper
         webSpeechLeft == IF unified.currentEngine = "webspeech"
                          THEN WebSpeech_cleanedUp(webSpeech) ELSE webSpeech
         current == [unified EXCEPT !.currentEngine = engineType,
                                    !.switched = called]
         done == [Unified_setupEngineCallbacks(current) EXCEPT
                    !.switched.outcome = "ok"]
     IN  IF engineType \notin unified.availableEngines
         THEN /\ unified' = [unified EXCEPT !.switched = called,
                                            !.switched.outcome = "error"]
              /\ UNCHANGED <<whisper, webSpeech>>
         ELSE IF engineType = "webspeech"
         THEN /\ whisper' = whisperLeft
              /\ IF webSpeechLeft.isInitialized
                 THEN /\ webSpeech' = webSpeechLeft
                      /\ unified' = done
                 ELSE IF ok
                 THEN /\ webSpeech' = [webSpeechLeft EXCEPT !.recognition = "idle",
                                                            !.isInitialized = TRUE]
                      /\ unified' = done
                 ELSE /\ webSpeech' = webSpeechLeft
                      /\ unified' = [current EXCEPT !.switched.outcome = "error"]
         ELSE /\ webSpeech' = webSpeechLeft
              /\ whisper' = whisperLeft
              /\ unified' = IF whisperLeft.isInitialized THEN done
                            ELSE [current EXCEPT !.awaited = engineType]
  /\ UnifiedBecomes(UnifiedState(0, TRUE))
  /\ UNCHANGED <<ev, events, call, ret, isListening, clock, audio>>

\* The init() switchEngine awaits settles and switchEngine goes on: the
\* callbacks are set, or the rejection is passed on to the caller.
\* initializeComponents may have made the audio processor before init failed.
Unified_initSettles(ok) ==
  /\ unified.awaited = "whisper"
  /\ IF ok
     THEN /\ whisper' = Whisper_initialized(whisper)
          /\ unified' = [Unified_setupEngineCallbacks(unified) EXCEPT
                           !.awaited = "null",
                           !.switched.outcome = "ok"]
     ELSE /\ \E made \in BOOLEAN : whisper' = [whisper EXCEPT !.audioProcessor = made]
          /\ unified' = [unified EXCEPT !.awaited = "null",
                                        !.switched.outcome = "error"]
  /\ UnifiedBecomes(UnifiedState(0, TRUE))
  /\ UNCHANGED <<ev, events, call, ret, isListening, clock,
                 webSpeech, audio>>

\* UnifiedVoiceRecognition.start: currentEngine.start()
Unified_startCurrent ==
  /\ unified.currentEngine # "null"
  /\ IF unified.currentEngine = "whisper"
     THEN /\ whisper' = IF whisper.isInitialized
                        THEN [whisper EXCEPT !.isListening = TRUE] ELSE whisper
          /\ UNCHANGED webSpeech
     ELSE /\ webSpeech' = WebSpeech_started(webSpeech)
          /\ UNCHANGED whisper
  /\ UnifiedBecomes(UnifiedState(0, TRUE))
  /\ UNCHANGED <<ev, events, call, ret, isListening, clock,
                 audio, unified>>

\* UnifiedVoiceRecognition.stop: currentEngine.stop()
Unified_stopCurrent ==
  /\ unified.currentEngine # "null"
  /\ IF unified.currentEngine = "whisper"
     THEN /\ whisper' = Whisper_stopped(whisper)
          /\ UNCHANGED webSpeech
     ELSE /\ webSpeech' = [WebSpeech_stopped(webSpeech) EXCEPT !.wanted = FALSE]
          /\ UNCHANGED whisper
  /\ UnifiedBecomes(UnifiedState(0, TRUE))
  /\ UNCHANGED <<ev, events, call, ret, isListening, clock,
                 audio, unified>>

\* The onResult callback setupEngineCallbacks gave an engine runs for a final
\* result of that engine: processRecognitionResult
Unified_onEngineResult(engine, text, confidence) ==
  /\ UnifiedBecomes(Unified_processRecognitionResult(
                      UnifiedState(events + 1, TRUE), text, confidence))
  /\ ev' = [kind |-> "result", text |-> text, confidence |-> confidence]
  /\ events' = events + 1
  /\ unified' = [unified EXCEPT
                   !.processed = Append(@, [from    |-> engine,
                                            current |-> unified.currentEngine,
                                            awaited |-> unified.awaited])]

\* A whisperModule.transcribe call settles as in Whisper_transcribeSettles;
\* notifyResult calls the onResult callback the engine holds.  A text is
\* 「攻撃」, the confidence the 0.8 of result.confidence || 0.8
Unified_transcribeSettles(audioData, result) ==
  /\ audioData \in whisper.calls
  /\ result = "text" => events < MaxUtterances
  /\ LET settled == [whisper EXCEPT !.calls = @ \ {audioData}]
         told    == IF result = "text" THEN Whisper_notifyResult(settled, audioData)
                    ELSE settled
     IN  whisper' = Whisper_loop(told)
  /\ IF result = "text" /\ "whisper" \in unified.callbacks
     THEN Unified_onEngineResult("whisper", T_kougeki, 80)
     ELSE /\ UnifiedBecomes(UnifiedState(0, TRUE))
          /\ UNCHANGED <<ev, events, unified>>
  /\ UNCHANGED <<call, ret, isListening, clock, webSpeech, audio>>

\* recognition.onresult of the running recognizer with a final result:
\* handleRecognitionResult notifies 「攻撃」 at 0.90
Unified_webSpeechResult ==
  /\ webSpeech.recognition = "running"
  /\ events < MaxUtterances
  /\ IF "webspeech" \in unified.callbacks
     THEN Unified_onEngineResult("webspeech", T_kougeki, 90)
     ELSE /\ UnifiedBecomes(UnifiedState(0, TRUE))
          /\ UNCHANGED <<ev, events, unified>>
  /\ UNCHANGED <<call, ret, isListening, clock, whisper, webSpeech, audio>>

NextSwitch ==
  \/ \E supported \in {{"webspeech"}, {"webspeech", "whisper"}} :
        Unified_registerAvailableEngines(supported)
  \/ \E engineType \in EngineTypes, ok \in BOOLEAN :
        Unified_switchEngine(engineType, ok)
  \/ \E ok \in BOOLEAN : Unified_initSettles(ok)
  \/ Unified_startCurrent
  \/ Unified_stopCurrent
  \/ whisper.utterances < MaxSwitchEvents /\ Whisper_onSpeechEnd
  \/ \E audioData \in 1..MaxSpeech, result \in TranscribeResults :
        Unified_transcribeSettles(audioData, result)
  \/ Len(webSpeech.statuses) < MaxSwitchEvents /\ WebSpeech_onstart
  \/ Unified_webSpeechResult

SpecSwitch == InitSwitch /\ [][NextSwitch]_vars

(***************************************************************************)
(* The command queue with the timer of wait() firing                       *)
(***************************************************************************)

\* The pipeline without page reloads
NextQueue ==
  \/ start
  \/ stop
  \/ \E i \in TwiceInputs : onresult(i.text, i.confidence)
  \/ confirmationTimerFires
  \/ queueTimerFires

\* wait(queueProcessingDelay) is a setTimeout of 1000 ms, which the timer
\* queue runs: a drain loop that waits is resumed
SpecQueueFair == Init /\ [][NextQueue]_vars /\ WF_vars(queueTimerFires)

(***************************************************************************)
(* Properties                                                              *)
(***************************************************************************)

\* Whether the transcript of the last matcher call contains learned key i
containsLearnedKey(i) ==
  includes(toLowerCase(call.text), toLowerCase(learnedCommands[i].key))

\* C1, as stated: for every learned key the transcript contains,
\* parseAdvancedCommand returns exactly the one command that key maps to,
\* whatever else the transcript contains, other learned keys included.
C1_EveryContainedKeyDecides ==
  call.op = "parseAdvancedCommand" =>
    \A i \in 1..Len(learnedCommands) :
      containsLearnedKey(i) => ret.commands = <<learnedCommands[i].val>>

\* C1, amended: when the transcript contains learned keys,
\* parseAdvancedCommand returns exactly the one command of the first of them
\* in the map's insertion order, whatever keywords, compound phrases or
\* further learned keys the transcript also contains.
C1_FirstContainedKeyDecides ==
  call.op = "parseAdvancedCommand" =>
    \A i \in 1..Len(learnedCommands) :
      (containsLearnedKey(i) /\ \A j \in 1..(i - 1) : ~ containsLearnedKey(j))
        => ret.commands = <<learnedCommands[i].val>>

\* C1 witness: a transcript with two learned keys of different commands,
\* matched to the first key's command against what a cold store would return
C1_Witness ==
  /\ call.op = "parseAdvancedCommand"
  /\ Len(learnedCommands) = 2
  /\ containsLearnedKey(1) /\ containsLearnedKey(2)
  /\ learnedCommands[1].val # learnedCommands[2].val
  /\ ret.commands = <<learnedCommands[1].val>>
  /\ ret.commands # parseAdvancedCommand(<<>>, call.text)

\* C5: shouldConfirm(command, text, c) is true exactly when c < 0.6, or the
\* command is retreat and c < 0.8, or the text has more than 3
\* space-separated tokens and c < 0.75; every bound is exclusive.
C5_ShouldConfirmThresholds ==
  call.op = "shouldConfirm" =>
    ret.flag = ( \/ call.confidence < 60
                 \/ call.command = "retreat" /\ call.confidence < 80
                 \/ /\ Cardinality({i \in 1..Len(call.text) : call.text[i] = " "}) + 1 > 3
                    /\ call.confidence < 75 )

\* C5 witness: confidence exactly at the base threshold, no confirmation
C5_Witness ==
  /\ call.op = "shouldConfirm"
  /\ call.command = "attack"
  /\ call.confidence = 60
  /\ ret.flag = FALSE

\* The callbacks of kind k among the outputs o of a step
Calls(o, k) == SelectSeq(o, LAMBDA e : e.k = k)

\* How often the pair (key, command) was recorded as a success
timesRecorded(key, command) ==
  Cardinality({j \in 1..Len(recorded) : recorded[j] = <<key, command>>})

\* C2, as stated: from an empty store, three recordings of the same
\* (transcript, command) pair leave the learned-pattern map holding exactly
\* that normalized transcript mapped to that command.
C2_ThreeIdenticalRecordingsPromote ==
  ( /\ loadedKeys = {}
    /\ Len(recorded) = 3
    /\ recorded[1] = recorded[2] /\ recorded[2] = recorded[3] )
    => learnedCommands = << [key |-> recorded[1][1], val |-> recorded[1][2]] >>

\* C3, as stated: every key of the learned-pattern map that was not loaded
\* from storage has been recorded as a success at least 3 times for the
\* command it maps to.
C3_PromotedOnlyAfterThreeRecordings ==
  \A i \in 1..Len(learnedCommands) :
    learnedCommands[i].key \notin loadedKeys
      => timesRecorded(learnedCommands[i].key, learnedCommands[i].val) >= 3

\* C4: when the confirmation timer fires, the pending confirmation is
\* rejected exactly once (onRejected called once, for that request), no
\* command is dispatched and the coordinator is idle; and a timer is armed
\* only for the request that is pending now, so once a request is confirmed,
\* rejected, retried, replaced or superseded no timeout can fire for it.
C4_TimeoutRejectsOnce ==
  /\ [][ ev'.kind = "timeout" =>
           /\ pendingConfirmation # <<>>
           /\ Len(Calls(out', "onRejected")) = 1
           /\ Calls(out', "onRejected")[1].n = pendingConfirmation[1].id
           /\ Calls(out', "onCommand") = <<>>
           /\ Calls(out', "onConfirmed") = <<>>
           /\ pendingConfirmation' = <<>> ]_vars
  /\ [] \A t \in timers :
          /\ pendingConfirmation # <<>>
          /\ t.armedFor = pendingConfirmation[1].id
          /\ t.handle = confirmationTimeout

\* C4 witness: the timer has fired on a pending confirmation and rejected it
C4_Witness ==
  /\ ev.kind = "timeout"
  /\ Len(Calls(out, "onRejected")) = 1
  /\ pendingConfirmation = <<>>
  /\ timers = {}

\* C6: a step that opens a confirmation dispatches no command; and a
\* yes-pattern response to a pending confirmation of a single matched command
\* dispatches that command exactly once with the original text, has the
\* original phrase in that command's candidate set afterwards, and leaves the
\* coordinator idle with no timer.
C6_ConfirmPath ==
  [][ /\ requests' = requests + 1 => Calls(out', "onCommand") = <<>>
      /\ ( /\ ev'.kind = "result"
           /\ responseKind(ev'.text) = "yes"
           /\ pendingConfirmation # <<>>
           /\ Len(pendingConfirmation[1].allCommands) = 1 )
         => LET pending == pendingConfirmation[1]
            IN  /\ Calls(out', "onCommand") =
                     << Output("onCommand", pending.command, pending.originalText, 0) >>
                /\ MapHas(userPatterns', pending.command)
                /\ SetHas(MapGet(userPatterns', pending.command),
                          trim(toLowerCase(pending.originalText)))
                /\ pendingConfirmation' = <<>>
                /\ confirmationTimeout' = 0
                /\ timers' = {} ]_vars

\* C6 witness: attack heard at 0.55 was confirmed by a yes response
C6_Witness ==
  /\ ev.kind = "result"
  /\ responseKind(ev.text) = "yes"
  /\ Calls(out, "onConfirmed") # <<>>
  /\ Calls(out, "onConfirmed")[1].cmd = "attack"
  /\ Calls(out, "onCommand") = << Output("onCommand", "attack", T_kougeki, 0) >>
  /\ recorded # <<>>
  /\ pendingConfirmation = <<>>

\* C7: a no-pattern response to a pending confirmation calls the rejection
\* callback of that confirmation once, calls neither onCommand nor
\* onConfirmed, leaves the candidate sets, the learned-pattern map and the
\* stored copy unchanged, and ends the confirmation.
C7_RejectPath ==
  [][ ( /\ ev'.kind = "result"
        /\ responseKind(ev'.text) = "no"
        /\ pendingConfirmation # <<>> )
      => /\ Len(Calls(out', "onRejected")) = 1
         /\ Calls(out', "onRejected")[1].n = pendingConfirmation[1].id
         /\ Calls(out', "onRejected")[1].text = pendingConfirmation[1].originalText
         /\ Calls(out', "onCommand") = <<>>
         /\ Calls(out', "onConfirmed") = <<>>
         /\ UNCHANGED <<userPatterns, learnedCommands, localStorage, recorded>>
         /\ pendingConfirmation' = <<>> ]_vars

\* C7 witness: a no response has rejected a confirmation of a phrase that
\* the candidate sets already held
C7_Witness ==
  /\ ev.kind = "result"
  /\ responseKind(ev.text) = "no"
  /\ Len(Calls(out, "onRejected")) = 1
  /\ Calls(out, "onRejected")[1].text = T_kougeki
  /\ userPatterns # <<>>
  /\ pendingConfirmation = <<>>

\* The onCommand calls among o that carry a command to run, leaving out the
\* 'queue', 'suggestion' and 'help' notifications
Dispatches(o) ==
  SelectSeq(o, LAMBDA e : e.k = "onCommand" /\ e.cmd \notin {"queue", "suggestion", "help"})

\* C8, as stated: a transcript delivered while a confirmation is pending is
\* handled only as a confirmation response; unless it confirms or replaces,
\* the step dispatches no command, records no learning and opens no new
\* confirmation.
C8_PendingTakesPriority ==
  [][ ( /\ ev'.kind = "result"
        /\ pendingConfirmation # <<>>
        /\ responseKind(ev'.text) \notin {"yes", "replace"} )
      => /\ Dispatches(out') = <<>>
         /\ recorded' = recorded
         /\ requests' = requests ]_vars

\* C9: at most one confirmation is pending and at most one timer is armed;
\* once a request has been overwritten by a later requestConfirmation, no
\* onConfirmed or onRejected call is made for it, no timer armed for it
\* remains, and it is not the pending request again.
C9_SupersededNeverResolved ==
  /\ Len(pendingConfirmation) <= 1
  /\ Cardinality(timers) <= 1
  /\ \A i \in 1..Len(out) :
       out[i].k \in {"onConfirmed", "onRejected"} => out[i].n \notin superseded
  /\ \A t \in timers : t.armedFor \notin superseded
  /\ pendingConfirmation # <<>> => pendingConfirmation[1].id \notin superseded

\* C9 witness: a request was overwritten, and the later request was confirmed
C9_Witness ==
  /\ superseded # {}
  /\ Calls(out, "onConfirmed") # <<>>
  /\ Calls(out, "onConfirmed")[1].n \notin superseded
  /\ pendingConfirmation = <<>>

\* The candidate sets that hold the phrase key
setsHolding(patterns, key) ==
  {i \in 1..Len(patterns) : SetHas(patterns[i].val, key)}

C16_NoTimeoutAfterStop ==
  [][ ev'.kind = "timeout" => isListening ]_vars

\* C13, as stated: the 'queue' notification of a multi-command match comes
\* before the first token of the sequence is dispatched: no onCommand call
\* precedes it among the calls of the step that queues the sequence.
C13_QueuedNotificationFirst ==
  \A i \in 1..Len(out) :
    (out[i].k = "onCommand" /\ out[i].cmd = "queue")
      => \A j \in 1..(i - 1) : out[j].k # "onCommand"

\* C11, as stated: in the unified dispatcher, a result whose first matched
\* command needs confirmation is recorded as the pending confirmation of
\* that command and the confirmation timer is started.
C11_ConfirmationOpened ==
  [][ LET commands == Unified_matchCommands(learnedCommands, ev'.text)
      IN  ( /\ events' = events + 1
            /\ confirmationSystem
            /\ pendingConfirmation = <<>>
            /\ commands # <<>>
            /\ shouldConfirm(commands[1], ev'.text, ev'.confidence) )
          => /\ pendingConfirmation' # <<>>
             /\ pendingConfirmation'[1].command = commands[1]
             /\ confirmationTimeout' # 0
             /\ \E t \in timers' : t.handle = confirmationTimeout' ]_vars

\* The token was dispatched, at some position of delivered before n
dispatchedBefore(token, n) == \E j \in 1..(n - 1) : delivered[j].token = token

\* The token waits in the timer queue
waiting(token) == \E j \in 1..Len(scheduled) : scheduled[j].token = token

\* C12: of a sequence queued by the unified dispatcher, every token is
\* either dispatched once or still scheduled once, never both and never
\* twice; a dispatched token is the command at its place in the matched
\* sequence and went out (its place - 1) delays of 1000 ms after the match,
\* so the first at once and each next one delay after the one before; the
\* tokens before it were dispatched before it, and the tokens after it are
\* dispatched or scheduled, whatever onCommand's handler made of it; and no
\* scheduled token is overdue.
C12_SequenceDispatch ==
  /\ \A i \in 1..Len(delivered) :
       LET d == delivered[i]
           n == Len(delivered) + 1
       IN  d.token # NoToken =>
             /\ d.command = d.token.sequence[d.token.index]
             /\ d.at = d.token.since + (d.token.index - 1) * queueProcessingDelay
             /\ ~ dispatchedBefore(d.token, i)
             /\ ~ waiting(d.token)
             /\ \A k \in 1..(d.token.index - 1) :
                  dispatchedBefore([d.token EXCEPT !.index = k], i)
             /\ \A k \in (d.token.index + 1)..Len(d.token.sequence) :
                  LET next == [d.token EXCEPT !.index = k]
                  IN  (dispatchedBefore(next, n) /\ ~ dispatchedBefore(next, i))
                        \/ waiting(next)
  /\ \A i \in 1..Len(scheduled) :
       LET e == scheduled[i]
       IN  /\ e.due >= clock
           /\ e.due = e.token.since + (e.token.index - 1) * queueProcessingDelay
           /\ e.command = e.token.sequence[e.token.index]
           /\ \A j \in 1..Len(scheduled) : scheduled[j].token = e.token => j = i
           /\ \A k \in 1..(e.token.index - 1) :
                LET prev == [e.token EXCEPT !.index = k]
                IN  dispatchedBefore(prev, Len(delivered) + 1) \/ waiting(prev)

\* C12 witness: of the sequence [attack, defend] the first token was
\* dispatched at once and its handler reported failure, and the second was
\* dispatched 1000 ms later
C12_Witness ==
  \E i, j \in 1..Len(delivered) :
     /\ i < j
     /\ delivered[i].token # NoToken
     /\ delivered[i].token.index = 1
     /\ delivered[i].token.sequence = <<"attack", "defend">>
     /\ delivered[i].command = "attack"
     /\ delivered[i].at = delivered[i].token.since
     /\ ~ delivered[i].ok
     /\ delivered[j].token = [delivered[i].token EXCEPT !.index = 2]
     /\ delivered[j].command = "defend"
     /\ delivered[j].at = delivered[i].at + 1000

\* C14, as stated: the tokens of a sequence queued later are all dispatched
\* after all tokens of a sequence queued earlier: among the dispatches of
\* queued tokens, none of a later utterance comes before one of an earlier.
C14_LaterSequenceAfterEarlier ==
  \A i, j \in 1..Len(delivered) :
     ( /\ i < j
       /\ delivered[i].token # NoToken
       /\ delivered[j].token # NoToken )
     => delivered[i].token.utterance <= delivered[j].token.utterance

\* C15, as stated: once stop() has been called, no token that waits in a
\* scheduled dispatch is delivered to onCommand: a scheduled dispatch runs
\* only while the dispatcher is listening.
C15_NoDispatchAfterStop ==
  [][ ( /\ Len(delivered') = Len(delivered) + 1
        /\ delivered'[Len(delivered')].token # NoToken )
      => isListening ]_vars

\* C17, as stated: the result of a transcription that settles after stop()
\* is dropped: onResult is notified only while the engine is listening.
C17_NoResultAfterStop ==
  \A i \in 1..Len(whisper.notified) : whisper.notified[i].listening

\* C18, as stated: at most one whisperModule.transcribe call is in flight,
\* whatever start, stop, cleanup, init, speech-end and settle steps came
\* before.
C18_OneTranscriptionInFlight ==
  Cardinality(whisper.calls) <= 1

\* C19, as stated: no utterance that ends while the engine is listening is
\* lost: it waits in the processing queue or it has been handed to
\* transcribe.
C19_UtteranceQueuedNotLost ==
  \A audioData \in whisper.heard :
     \/ \E i \in 1..Len(whisper.processingQueue) : whisper.processingQueue[i] = audioData
     \/ \E i \in 1..Len(whisper.begun) : whisper.begun[i] = audioData

\* C20, as stated: when the recognizer ends (onend) while start() has been
\* called and stop() has not been since, a restart is scheduled: the
\* 500 ms restart timer is armed when the handler returns.
C20_RestartScheduledOnEnd ==
  [][ ( /\ webSpeech.recognition \in {"running", "stopping"}
        /\ webSpeech'.recognition = "idle"
        /\ webSpeech.wanted )
      => webSpeech'.restartArmed ]_vars

\* C23, as stated: an utterance whose speech lasted less than the minimum
\* speech duration is discarded, whether the silence timeout or
\* stopRecording ended it: onSpeechEnd is not called for it.
C23_ShortUtteranceDiscarded ==
  \A i \in 1..Len(audio.ended) :
     audio.ended[i].speech < minSpeechDuration => ~ audio.ended[i].handed

\* The last step reported this recognition error
reported(error) ==
  /\ Len(webSpeech'.statuses) = Len(webSpeech.statuses) + 1
  /\ webSpeech'.statuses[Len(webSpeech'.statuses)] = error

\* The last step was the callback of the restart timer
restartTimerRan ==
  /\ webSpeech.restartArmed
  /\ ~ webSpeech'.restartArmed
  /\ webSpeech'.wanted

\* C21, as stated: a no-speech, network or aborted error reported while
\* start() has been called and stop() has not been since is one after which
\* a restart is wanted and leaves the restart timer armed; and when that
\* timer fires, stop() still not called, on a recognizer that has ended,
\* the recognizer is started again.
C21_TransientErrorRestarts ==
  [][ /\ \A error \in {"no-speech", "network", "aborted"} :
           (reported(error) /\ webSpeech.wanted)
             => (shouldRestart(error) /\ webSpeech'.restartArmed)
      /\ (restartTimerRan /\ webSpeech.recognition = "idle")
           => webSpeech'.recognition = "starting" ]_vars

\* C22: a not-allowed or audio-capture error is one after which no restart
\* is wanted and its handler arms no restart timer; and from such an error
\* until the next start() call (or a cleanup, or a later error of another
\* kind) no step starts the recognizer, also not the callback of a restart
\* timer that an earlier error armed.
C22_NoRestartAfterFatal ==
  [][ /\ \A error \in {"not-allowed", "audio-capture"} :
           reported(error)
             => /\ ~ shouldRestart(error)
                /\ webSpeech'.fatal
                /\ webSpeech'.restartArmed => webSpeech.restartArmed
      /\ (webSpeech.fatal /\ webSpeech'.fatal)
           => ~ ( /\ webSpeech.recognition # "starting"
                  /\ webSpeech'.recognition = "starting" ) ]_vars

\* C22 witness: a network error armed the restart timer, the recognizer
\* was started again by start(), a not-allowed error followed, and the
\* timer has fired since: the recognizer has ended and stays ended
C22_Witness ==
  /\ webSpeech.fatal
  /\ webSpeech.restartTimeout
  /\ ~ webSpeech.restartArmed
  /\ webSpeech.recognition = "idle"
  /\ webSpeech.statuses = <<"network", "stopped", "not-allowed", "stopped">>

\* C30: in every state the online engine can be in, start() returns false
\* and leaves the engine not listening and its recognizer untouched when the
\* engine is not initialized (never initialized, initialization failed for a
\* missing capability, or cleaned up), and returns true without touching
\* the recognizer when the engine is listening already; and an engine that
\* is not initialized is never listening.
C30_StartReturn ==
  LET after == WebSpeech_started(webSpeech)
  IN  /\ ~ webSpeech.isInitialized
           => /\ after.returned = "false"
              /\ ~ after.isListening
              /\ ~ webSpeech.isListening
              /\ after.recognition = webSpeech.recognition
      /\ ~ webSpeech.isSupported => ~ webSpeech.isInitialized
      /\ webSpeech.isListening
           => /\ after.returned = "true"
              /\ after.isListening
              /\ after.recognition = webSpeech.recognition

\* C30 witness: the browser has no recognizer, and start() has been called
\* and returned false
C30_Witness ==
  /\ ~ webSpeech.isSupported
  /\ webSpeech.returned = "false"
  /\ ~ webSpeech.isListening
  /\ webSpeech.recognition = "null"

\* C27: a key of the learned-pattern map stays in the map, mapped to the
\* same command, across every step of the pipeline other than resetLearning
\* (recognized commands, confirmation responses, corrections, time-outs and
\* reloads)
C27_LearnedPermanent ==
  [][ \/ ev'.kind = "reset"
      \/ \A i \in 1..Len(learnedCommands) :
            /\ MapHas(learnedCommands', learnedCommands[i].key)
            /\ MapGet(learnedCommands', learnedCommands[i].key) = learnedCommands[i].val ]_vars

\* The learned-pattern map of the stored record, empty when there is none
storedLearned ==
  IF localStorage = <<>> THEN <<>>
  ELSE mapFromEntries(localStorage[1].learnedCommands)

\* The key-command pairs of a map
entriesOf(m) == {<<m[i].key, m[i].val>> : i \in 1..Len(m)}

candidatesOf(m) == {<<m[i].key, SetMembers(m[i].val)>> : i \in 1..Len(m)}

\* A fresh instance constructed over the record saveUserLearning writes
\* from the present state (initAdvancedFeatures calls loadUserLearning)
savedAndLoaded ==
  loadUserLearning([Constructed EXCEPT
                      !.localStorage = saveUserLearning(State).localStorage])

C25_UnrecognizedNotAnError ==
  [][ ( /\ events' = events + 1
        /\ pendingConfirmation = <<>>
        /\ Unified_matchCommands(learnedCommands, ev'.text) = <<>> )
      => /\ \A i \in 1..Len(out') :
               /\ out'[i].k # "onError"
               /\ out'[i].k = "onCommand" => out'[i].cmd \notin CommandTokens
         /\ \E i \in 1..Len(out') :
               /\ out'[i].k = "onCommand"
               /\ \/ out'[i].cmd = "suggestion" /\ out'[i].n \in 1..3
                  \/ out'[i].cmd = "help" ]_vars

\* Where a text first names a command with a word of the command table:
\* 0 when it does not
firstNamed(text, command) ==
  LET at == UNION { {o + 1 : o \in occurrences(text, commandMap[i].keyword, 0)} :
                      i \in {j \in 1..Len(commandMap) : commandMap[j].command = command} }
  IN  IF at = {} THEN 0 ELSE Min(at)

\* The commands a text names, in the order in which it names them
spokenOrder(text) ==
  LET named == {c \in CommandTokens : firstNamed(text, c) > 0}
  IN  IF Cardinality(named) # 2 THEN <<>>
      ELSE LET first == CHOOSE c \in named :
                          \A d \in named : firstNamed(text, c) <= firstNamed(text, d)
           IN  <<first, CHOOSE d \in named : d # first>>

\* C26: for a transcript that names two commands (and holds no learned
\* phrase), parseAdvancedCommand returns the two commands in the order in
\* which the transcript names them.
C26_SpokenOrder ==
  ( /\ call.op = "parseAdvancedCommand"
    /\ checkLearnedPatterns(learnedCommands, call.text) = NoCommand
    /\ spokenOrder(call.text) # <<>> )
  => ret.commands = spokenOrder(call.text)

\* C29: in the unified dispatcher, a step that records a success leaves
\* the phrase in the command's candidate set and, when the set then has
\* promotionThreshold phrases or more, leaves the phrase in the
\* learned-pattern map, mapped to the command, and the learned-pattern map
\* in the stored record.
C29_RecordSuccessPromotes ==
  [][ Len(recorded') = Len(recorded) + 1
      => LET key     == recorded'[Len(recorded')][1]
             command == recorded'[Len(recorded')][2]
         IN  /\ MapHas(userPatterns', command)
             /\ SetHas(MapGet(userPatterns', command), key)
             /\ Len(MapGet(userPatterns', command)) >= promotionThreshold
                  => /\ MapHas(learnedCommands', key)
                     /\ MapGet(learnedCommands', key) = command
                     /\ localStorage' # <<>>
                     /\ entriesOf(mapFromEntries(localStorage'[1].learnedCommands))
                          = entriesOf(learnedCommands') ]_vars

\* C31: a response to a pending confirmation that is no yes, no or retry
\* phrase and that parseCommand does not parse leaves the same request
\* pending, speaks the re-prompt, replaces the timer by a fresh one, calls
\* no callback and leaves the Learning Store as it was.
C31_UnknownResponseReprompts ==
  [][ ( /\ ev'.kind = "result"
        /\ pendingConfirmation # <<>>
        /\ responseKind(ev'.text) = "unknown" )
      => /\ pendingConfirmation' = pendingConfirmation
         /\ confirmationTimeout' \notin {0, confirmationTimeout}
         /\ timers' = {[handle |-> confirmationTimeout',
                        armedFor |-> pendingConfirmation[1].id]}
         /\ \E i \in 1..Len(out') : out'[i].k = "speak" /\ out'[i].cmd = "reprompt"
         /\ \A i \in 1..Len(out') : out'[i].k = "speak"
         /\ userPatterns' = userPatterns
         /\ learnedCommands' = learnedCommands
         /\ localStorage' = localStorage ]_vars

\* C32: a retry phrase given in response to a pending confirmation clears
\* the request and its timer and speaks the request to repeat; the step
\* calls nothing else, dispatches and queues no command and leaves the
\* Learning Store as it was.
C32_RetryEndsConfirmation ==
  [][ ( /\ ev'.kind = "result"
        /\ pendingConfirmation # <<>>
        /\ responseKind(ev'.text) = "retry" )
      => /\ pendingConfirmation' = <<>>
         /\ confirmationTimeout' = 0
         /\ timers' = {}
         /\ out' = <<Output("speak", "repeat", <<>>, 0)>>
         /\ commandQueue' = commandQueue
         /\ recorded' = recorded
         /\ userPatterns' = userPatterns
         /\ learnedCommands' = learnedCommands
         /\ localStorage' = localStorage ]_vars

\* C32 witness: "もう一度" was the response to the first request
C32_Witness ==
  /\ ev.kind = "result"
  /\ ev.text = T_retry
  /\ requests = 1
  /\ pendingConfirmation = <<>>
  /\ timers = {}
  /\ out = <<Output("speak", "repeat", <<>>, 0)>>

\* The phrases in a command's candidate set, none when it has no set
candidateSet(m, command) ==
  IF MapHas(m, command) THEN SetMembers(MapGet(m, command)) ELSE {}

\* C33: a replacement answer to a pending confirmation (the correction of
\* the pending phrase) takes the pending phrase out of the pending
\* command's candidate set, puts the new phrase into the new command's
\* set, and leaves the candidate sets of every other command as they were.
C33_CorrectionTouchesTwoSets ==
  [][ ( /\ ev'.kind = "result"
        /\ pendingConfirmation # <<>>
        /\ responseKind(ev'.text) = "replace" )
      => LET oldCommand == pendingConfirmation[1].command
             oldKey     == trim(toLowerCase(pendingConfirmation[1].originalText))
             newCommand == parseCommand(toLowerCase(ev'.text))
             newKey     == trim(toLowerCase(ev'.text))
         IN  /\ newKey \in candidateSet(userPatterns', newCommand)
             /\ (oldKey # newKey \/ oldCommand # newCommand)
                  => oldKey \notin candidateSet(userPatterns', oldCommand)
             /\ \A c \in CommandTokens \ {oldCommand, newCommand} :
                  candidateSet(userPatterns', c) = candidateSet(userPatterns, c) ]_vars

\* C34: the silence timer is armed only while an utterance is in progress;
\* a processor that is not recording has no silence timer armed and no
\* utterance in progress, and no speech end is handled while it is not
\* recording.
C34_StopHaltsTimers ==
  [][ /\ audio'.silenceTimer # -1 => audio'.speechStartTime # -1
      /\ ~ audio'.isRecording
           => /\ audio'.silenceTimer = -1
              /\ audio'.speechStartTime = -1
      /\ ~ audio.isRecording => audio'.ended = audio.ended ]_vars

\* C34 witness: stopRecording ended the one utterance while its silence
\* timer was armed, and time has passed since
C34_Witness ==
  /\ ~ audio.isRecording
  /\ Len(audio.ended) = 1
  /\ audio.ended[1].by = "stop"
  /\ audio.ended[1].cancelled
  /\ audio.silenceTimer = -1

C36_ContextHistoryBounded ==
  [][ /\ Len(contextHistory') <= maxContextHistory
      /\ IF events' = events + 1
         THEN /\ contextHistory'[1] = ev'.text
              /\ Len(contextHistory') =
                   Min({Len(contextHistory) + 1, maxContextHistory})
              /\ \A i \in 2..Len(contextHistory') :
                   contextHistory'[i] = contextHistory[i - 1]
         ELSE IF ev'.kind = "reload" /\ ev.kind # "reload"
         THEN contextHistory' = <<>>
         ELSE contextHistory' = contextHistory ]_vars

\* C36 witness: the eleventh transcript was a confirmation's 「はい」; it is
\* first of ten and the first transcript ever heard is gone
C36_Witness ==
  /\ events = 2
  /\ ev.kind = "result"
  /\ ev.text = T_hai
  /\ pendingConfirmation = <<>>
  /\ requests >= 1
  /\ Len(contextHistory) = maxContextHistory
  /\ contextHistory[1] = T_hai
  /\ \A i \in 1..Len(contextHistory) : contextHistory[i] # T_shield_on

\* C37: in every state between two events, a confirmation timer is armed
\* exactly when a confirmation is pending, and the coordinator holds a timer
\* handle exactly then.
C37_TimerArmedIffPending ==
  /\ (timers # {}) <=> (pendingConfirmation # <<>>)
  /\ (confirmationTimeout # 0) <=> (pendingConfirmation # <<>>)

\* C37 witness: a response that was no answer left the first request pending
\* with a timer armed anew for it
C37_Witness ==
  /\ ev.kind = "result"
  /\ responseKind(ev.text) = "unknown"
  /\ requests = 1
  /\ pendingConfirmation # <<>>
  /\ confirmationTimeout > 1
  /\ timers = {[handle |-> confirmationTimeout, armedFor |-> pendingConfirmation[1].id]}

\* C38: once no switchEngine call is under way, every result handed to
\* processRecognitionResult comes from the engine that is current at that
\* time.
C38_OnlyCurrentEngineProcessed ==
  \A i \in 1..Len(unified.processed) :
     unified.processed[i].awaited = "null"
        => unified.processed[i].from = unified.processed[i].current

\* C39: when the last switchEngine call was made with an initialized engine
\* current and ended in an error, that engine is the current engine and it
\* is initialized.
C39_FailedSwitchChangesNothing ==
  ( unified.switched.outcome = "error" /\ unified.switched.initialized )
    => /\ unified.currentEngine = unified.switched.previous
       /\ unified.switched.previous = "whisper" => whisper.isInitialized
       /\ unified.switched.previous = "webspeech" => webSpeech.isInitialized

\* The command names of the entries of a queue
commandsOf(q) == [i \in 1..Len(q) |-> q[i].command]

\* The commands the 'queue' notification among the outputs o names
queuedIn(o) ==
  LET notes == SelectSeq(o, LAMBDA e : e.k = "onCommand" /\ e.cmd = "queue")
  IN  IF notes = <<>> THEN <<>> ELSE notes[1].text

\* C40: when no drain loop runs the queue is empty; a resumed drain loop
\* dispatches the entry at the head of the queue, once, and removes it; any
\* other step appends the commands queueCommands was given behind the
\* entries waiting, and removes none but the first when no loop was running,
\* which it dispatches; and a running drain loop ends.
C40_QueueDrainsInOrder ==
  /\ [] ( ~ processingQueue => commandQueue = <<>> )
  /\ [][ IF ev'.kind = "queueTimer"
         THEN /\ commandQueue # <<>>
              /\ out' = << Output("onCommand", Head(commandQueue).command,
                                  Head(commandQueue).originalText, 0) >>
              /\ commandQueue' = Tail(commandQueue)
              /\ processingQueue' = (commandQueue' # <<>>)
         ELSE LET all == commandsOf(commandQueue) \o queuedIn(out')
              IN  IF processingQueue \/ all = <<>>
                  THEN /\ commandsOf(commandQueue') = all
                       /\ SubSeq(commandQueue', 1, Len(commandQueue)) = commandQueue
                  ELSE /\ commandsOf(commandQueue') = Tail(all)
                       /\ Len(SelectSeq(Dispatches(out'),
                                        LAMBDA e : e.cmd = Head(all))) = 1
                       /\ processingQueue' = (commandQueue' # <<>>) ]_vars
  /\ processingQueue ~> ~ processingQueue

\* C40 witness: commands of a second utterance were queued behind one of the
\* first while the drain loop waited
C40_Witness ==
  /\ processingQueue
  /\ Len(commandQueue) >= 2
  /\ commandQueue[1].originalText # commandQueue[Len(commandQueue)].originalText

=============================================================================
